---- MODULE Spec2Model ----
(***************************************************************************)
(* Crescent Watch: the visibility-computation engine (astronomy.ts), the   *)
(* grid generator and its callers, and the conjunction resolver.           *)
(*                                                                         *)
(* Numbers.  The engine computes in IEEE doubles; the model computes in    *)
(* exact fixed point:                                                      *)
(*   crescent width W   in tenths of an arcminute          (w  = 10 W)     *)
(*   ARCV, curve, V     in units of 1e-7 degree            (a7 = 1e7 ARCV) *)
(*   Yallop q           in units of 1e-8                   (q8 = 1e8 q)    *)
(*   altitudes, elongation in whole degrees                                *)
(*   latitude, longitude, stepDeg in half degrees          (x2 = 2 x)      *)
(*   instants           in whole hours                                     *)
(* so that a value lying exactly on a threshold is representable.          *)
(***************************************************************************)
EXTENDS Integers, Sequences, FiniteSets, TLC

VARIABLES
    critIn,     \* arguments of the pending / last criteria evaluation
    critOut,    \* its results (None before the evaluation)
    critPrev,   \* the evaluation made before it (None if there is none)
    ptIn,       \* arguments and provider answers of calculateVisibilityPoint
    ptOut,      \* what the call returned (None before the call)
    gridIn,     \* options of generateVisibilityGrid and the sky of the day
    gridOut,    \* how the call completed (None before the call)
    latIn,      \* stepDeg and maxLat given to the coordinate loops
    latOut,     \* the arrays lats and lons they build (None before)
    points,     \* frontend Home: the displayed visibility points
    isLoading,  \* frontend Home: a grid request is shown as running
    status,     \* frontend Home: the status line
    progress,   \* frontend Home: the progress figure
    abortControllerRef, \* frontend Home: the current run (0 for null)
    runs,       \* frontend Home: every handleGenerate call made so far
    conjIn,     \* arguments of findTopocentricConjunction, provider answers
    conjOut,    \* what the call returned (None before the call)
    apiIn,      \* an exported function, its arguments and the provider answers
    apiOut,     \* how that call completed (None before the call)
    visibilityPoints, \* in-browser Home: the displayed list (an array reference)
    isCalculating,    \* in-browser Home: a grid run is pending or running
    calcProgress,     \* in-browser Home: the progress figure
    timers,     \* in-browser Home: the setTimeout callbacks not yet run
    heap,       \* the point arrays allocated so far, by reference
    gridRun,    \* the generateVisibilityGrid activation in progress (None if none)
    timeOffset, \* simulation modal: minutes after sunset shown
    isPlaying,  \* simulation modal: playback is on
    playIntervalRef,  \* simulation modal: the interval of the animation effect
    effectIsPlaying,  \* simulation modal: isPlaying when the effect last ran
    userInputs  \* simulation modal: the clicks, slider moves and data changes so far

critVars == <<critIn, critOut, critPrev>>
ptVars == <<ptIn, ptOut>>
gridVars == <<gridIn, gridOut>>
latVars == <<latIn, latOut>>
feVars == <<points, isLoading, status, progress, abortControllerRef, runs>>
conjVars == <<conjIn, conjOut>>
apiVars == <<apiIn, apiOut>>
homeVars == <<visibilityPoints, isCalculating, calcProgress, timers, heap, gridRun>>
modalVars == <<timeOffset, isPlaying, playIntervalRef, effectIsPlaying, userInputs>>
vars == <<critIn, critOut, critPrev, ptIn, ptOut, gridIn, gridOut, latIn, latOut,
          points, isLoading, status, progress, abortControllerRef, runs,
          conjIn, conjOut, apiIn, apiOut,
          visibilityPoints, isCalculating, calcProgress, timers, heap, gridRun,
          timeOffset, isPlaying, playIntervalRef, effectIsPlaying, userInputs>>

None == [kind |-> "none"]

(***************************************************************************)
(* Bounds of the model.                                                    *)
(***************************************************************************)
\* largest crescent width tried by the criteria evaluations, in 0.1 arcmin
MaxW10 == 4
\* largest stepDeg given to the coordinate loops, in half degrees
MaxStep2 == 8
\* largest number of iterations a coordinate loop is followed for
MaxIter == 800
\* number of handleGenerate calls followed
MaxRuns == 2
\* number of stream lines followed per grid request
MaxLines == 2
\* number of in-browser grid runs followed
MaxGridRuns == 2

MaxBytes == 4

MaxInputs == 3

(***************************************************************************)
(* Visibility criteria evaluators.                                         *)
(***************************************************************************)
YallopCurveOdehConstant7(w) ==
    71651000 - 6322600 * w + 73190 * w * w - 1018 * w * w * w

\* 11.8371 - 6.3226 W + 0.7319 W^2 - 0.1018 W^3, times 1e7, W = w/10
YallopCurve7(w) ==
    118371000 - 6322600 * w + 73190 * w * w - 1018 * w * w * w

OdehCurveYallopConstant7(w) ==
    (0 - 1018) * w * w * w + 73190 * w * w - 6322600 * w + 118371000

\* -0.1018 W^3 + 0.7319 W^2 - 6.3226 W + 7.1651, times 1e7, W = w/10
OdehCurve7(w) ==
    (0 - 1018) * w * w * w + 73190 * w * w - 6322600 * w + 71651000

YallopGE(arcl, arcv7, w) ==
    LET f == YallopCurve7(w)
        q == arcv7 - f
    IN  IF q >= 21600000 THEN [q |-> q, cls |-> "A", visibility |-> "naked_eye_easy"]
        ELSE IF q >= -1400000 THEN [q |-> q, cls |-> "B", visibility |-> "naked_eye_perfect"]
        ELSE IF q >= -16000000 THEN [q |-> q, cls |-> "C", visibility |-> "mixed_optical_helpful"]
        ELSE IF q >= -23200000 THEN [q |-> q, cls |-> "D", visibility |-> "optical_required"]
        ELSE IF q >= -29300000 THEN [q |-> q, cls |-> "E", visibility |-> "not_visible_telescope"]
        ELSE [q |-> q, cls |-> "F", visibility |-> "not_visible"]

YallopSignFlip(arcl, arcv7, w) ==
    LET f == YallopCurve7(w)
        q == f - arcv7
    IN  IF q > 21600000 THEN [q |-> q, cls |-> "A", visibility |-> "naked_eye_easy"]
        ELSE IF q > -1400000 THEN [q |-> q, cls |-> "B", visibility |-> "naked_eye_perfect"]
        ELSE IF q > -16000000 THEN [q |-> q, cls |-> "C", visibility |-> "mixed_optical_helpful"]
        ELSE IF q > -23200000 THEN [q |-> q, cls |-> "D", visibility |-> "optical_required"]
        ELSE IF q > -29300000 THEN [q |-> q, cls |-> "E", visibility |-> "not_visible_telescope"]
        ELSE [q |-> q, cls |-> "F", visibility |-> "not_visible"]

\* q = (arcv - f) / 10 in units of 1e-8 is arcv7 - f7; the ladder uses strict >
yallopCriterion(arcl, arcv7, w) ==
    LET f == YallopCurve7(w)
        q == arcv7 - f
    IN  IF q > 21600000 THEN [q |-> q, cls |-> "A", visibility |-> "naked_eye_easy"]
        ELSE IF q > -1400000 THEN [q |-> q, cls |-> "B", visibility |-> "naked_eye_perfect"]
        ELSE IF q > -16000000 THEN [q |-> q, cls |-> "C", visibility |-> "mixed_optical_helpful"]
        ELSE IF q > -23200000 THEN [q |-> q, cls |-> "D", visibility |-> "optical_required"]
        ELSE IF q > -29300000 THEN [q |-> q, cls |-> "E", visibility |-> "not_visible_telescope"]
        ELSE [q |-> q, cls |-> "F", visibility |-> "not_visible"]

OdehStrict(arcv7, w) ==
    LET curve == OdehCurve7(w)
        v == arcv7 - curve
    IN  IF v > 56500000 THEN [v |-> v, zone |-> "A", visibility |-> "naked_eye"]
        ELSE IF v > 20000000 THEN [v |-> v, zone |-> "B", visibility |-> "naked_eye"]
        ELSE IF v > -9600000 THEN [v |-> v, zone |-> "C", visibility |-> "optical_aid"]
        ELSE [v |-> v, zone |-> "D", visibility |-> "not_visible"]

\* V = arcv - curve in units of 1e-7; the ladder uses >=
odehCriterion(arcv7, w) ==
    LET curve == OdehCurve7(w)
        v == arcv7 - curve
    IN  IF v >= 56500000 THEN [v |-> v, zone |-> "A", visibility |-> "naked_eye"]
        ELSE IF v >= 20000000 THEN [v |-> v, zone |-> "B", visibility |-> "naked_eye"]
        ELSE IF v >= -9600000 THEN [v |-> v, zone |-> "C", visibility |-> "optical_aid"]
        ELSE [v |-> v, zone |-> "D", visibility |-> "not_visible"]

zoneToColor(zone) ==
    CASE zone = "A" -> "green"
      [] zone = "B" -> "yellow"
      [] zone = "C" -> "orange"
      [] zone = "D" -> "red"

yallopClassToColor(cls) ==
    CASE cls = "A" -> "green"
      [] cls = "B" -> "green"
      [] cls = "C" -> "yellow"
      [] cls = "D" -> "orange"
      [] cls = "E" -> "red"
      [] cls = "F" -> "red"

SaaoEither(moonAlt, moonAge) ==
    IF moonAlt >= 10 \/ moonAge >= 24 THEN [zone |-> "A", color |-> "green"]
    ELSE IF moonAlt >= 6 \/ moonAge >= 18 THEN [zone |-> "B", color |-> "yellow"]
    ELSE IF moonAlt >= 3 \/ moonAge >= 15 THEN [zone |-> "C", color |-> "orange"]
    ELSE [zone |-> "D", color |-> "red"]

saaoCriterion(moonAlt, moonAge) ==
    IF moonAlt >= 10 /\ moonAge >= 24 THEN [zone |-> "A", color |-> "green"]
    ELSE IF moonAlt >= 6 /\ moonAge >= 18 THEN [zone |-> "B", color |-> "yellow"]
    ELSE IF moonAlt >= 3 /\ moonAge >= 15 THEN [zone |-> "C", color |-> "orange"]
    ELSE [zone |-> "D", color |-> "red"]

ShaukatNoGate(elongation, moonAlt) ==
    IF moonAlt >= 8 /\ elongation >= 12 THEN [zone |-> "A", color |-> "green"]
    ELSE IF moonAlt >= 5 /\ elongation >= 10 THEN [zone |-> "B", color |-> "yellow"]
    ELSE IF moonAlt >= 2 /\ elongation >= 8 THEN [zone |-> "C", color |-> "orange"]
    ELSE [zone |-> "D", color |-> "red"]

shaukatCriterion(elongation, moonAlt) ==
    IF elongation < 10 THEN [zone |-> "D", color |-> "red"]
    ELSE IF moonAlt >= 8 /\ elongation >= 12 THEN [zone |-> "A", color |-> "green"]
    ELSE IF moonAlt >= 5 /\ elongation >= 10 THEN [zone |-> "B", color |-> "yellow"]
    ELSE IF moonAlt >= 2 /\ elongation >= 8 THEN [zone |-> "C", color |-> "orange"]
    ELSE [zone |-> "D", color |-> "red"]

(***************************************************************************)
(* Criteria evaluations: the arguments tried.  For each width the ARCV     *)
(* values lie on, just below and just above every threshold of both        *)
(* ladders, plus a coarse grid of whole degrees.                           *)
(***************************************************************************)
Widths == 0..MaxW10

YallopThresholds8 == {21600000, -1400000, -16000000, -23200000, -29300000}

OdehThresholds7 == {56500000, 20000000, -9600000}

ArcvGrid7 == {d * 10000000 : d \in {-5, 0, 5, 7, 10, 15}}

ArcvInputs(w) ==
    {YallopCurve7(w) + t + d : t \in YallopThresholds8, d \in {-1, 0, 1}}
    \cup {OdehCurve7(w) + t + d : t \in OdehThresholds7, d \in {-1, 0, 1}}
    \cup ArcvGrid7

\* lines 318-319 and 342/345 of calculateVisibilityPoint: both evaluators and
\* both colour maps applied to the same (arcv, width)
ApplyCriteria(in) ==
    LET odeh == odehCriterion(in.arcv, in.w)
        yallop == yallopCriterion(0, in.arcv, in.w)
    IN  [kind |-> "result",
         odeh |-> odeh,
         yallop |-> yallop,
         odehColor |-> zoneToColor(odeh.zone),
         yallopColor |-> yallopClassToColor(yallop.cls)]

CritIdle == critIn = None /\ critOut = None /\ critPrev = None

CritInit ==
    /\ \E w \in Widths : \E a \in ArcvInputs(w) :
          critIn = [kind |-> "args", w |-> w, arcv |-> a]
    /\ critOut = None
    /\ critPrev = None

Classify ==
    /\ critIn # None
    /\ critOut = None
    /\ critOut' = ApplyCriteria(critIn)
    /\ UNCHANGED <<critIn, critPrev>>

\* another ARCV for the same width; the finished evaluation is remembered
ChangeArcv ==
    /\ critOut # None
    /\ \E a \in ArcvInputs(critIn.w) :
          critIn' = [critIn EXCEPT !.arcv = a]
    /\ critPrev' = [kind |-> "eval", in |-> critIn, out |-> critOut]
    /\ critOut' = None

CritNext == Classify \/ ChangeArcv

(***************************************************************************)
(* Geometry derivation: crescent semi-width.  sin, cos and asin are        *)
(* tabulated at the angles and distances the model uses (values times 1e4, *)
(* radians times 1e5); the result is carried in tenths of an arcminute.    *)
(***************************************************************************)
SinE4 ==
    (-90 :> -10000) @@ (-5 :> -872) @@ (-1 :> -175) @@ (0 :> 0) @@ (2 :> 349)
    @@ (3 :> 523) @@ (5 :> 872) @@ (6 :> 1045) @@ (8 :> 1392) @@ (10 :> 1736)
    @@ (12 :> 2079) @@ (15 :> 2588) @@ (20 :> 3420) @@ (30 :> 5000)
    @@ (90 :> 10000) @@ (180 :> 0)

CosE4 ==
    (-90 :> 0) @@ (-5 :> 9962) @@ (-1 :> 9998) @@ (0 :> 10000) @@ (2 :> 9994)
    @@ (3 :> 9986) @@ (5 :> 9962) @@ (6 :> 9945) @@ (8 :> 9903) @@ (10 :> 9848)
    @@ (12 :> 9781) @@ (15 :> 9659) @@ (20 :> 9397) @@ (30 :> 8660)
    @@ (90 :> 0) @@ (180 :> -10000)

\* asin(min(EARTH_RADIUS_KM / distKm, 1)) in 1e-5 rad
AsinSinPiE5 ==
    (356500 :> 1789) @@ (384400 :> 1659) @@ (406700 :> 1568)
    @@ (6378 :> 157080) @@ (3000 :> 157080)

Min(a, b) == IF a <= b THEN a ELSE b

CalcCrescentWidthCosMinusOne(arclDeg, moonAltDeg, distKm) ==
    LET sinPi == Min(63781370 \div distKm, 10000)
        piRad == AsinSinPiE5[distKm]
        sdRad == (5449 * piRad) \div 20000
        sdPrimeRad == (sdRad * (10000 + (SinE4[moonAltDeg] * sinPi) \div 10000)) \div 10000
        wPrimeRad == (sdPrimeRad * (CosE4[arclDeg] - 10000)) \div 10000
    IN  (wPrimeRad * 3438) \div 10000

calcCrescentWidth(arclDeg, moonAltDeg, distKm) ==
    LET sinPi == Min(63781370 \div distKm, 10000)
        piRad == AsinSinPiE5[distKm]
        sdRad == (5449 * piRad) \div 20000
        sdPrimeRad == (sdRad * (10000 + (SinE4[moonAltDeg] * sinPi) \div 10000)) \div 10000
        wPrimeRad == (sdPrimeRad * (10000 - CosE4[arclDeg])) \div 10000
    IN  (wPrimeRad * 3438) \div 10000

(***************************************************************************)
(* calculateVisibilityPoint.  The Position Provider is a black box: `sky`  *)
(* is what it answers for the cell (a fault in findSunset or in            *)
(* getMoonSunData, no sunset, or the data at sunset).  A call completes    *)
(* with [kind |-> "return", value |-> ...] or [kind |-> "throw"].          *)
(***************************************************************************)
Return(v) == [kind |-> "return", value |-> v]

Throw == [kind |-> "throw"]

RedPoint(lat, lon) == [lat |-> lat, lon |-> lon, color |-> "red"]

CriterionColorDefaultSaao(criterion, odeh, yallop, saao, shaukat) ==
    CASE criterion = "odeh" -> zoneToColor(odeh.zone)
      [] criterion = "yallop" -> yallopClassToColor(yallop.cls)
      [] criterion = "shaukat" -> shaukat.color
      [] OTHER -> saao.color

\* lines 338-355: the switch on the selected criterion
CriterionColor(criterion, odeh, yallop, saao, shaukat) ==
    CASE criterion = "odeh" -> zoneToColor(odeh.zone)
      [] criterion = "yallop" -> yallopClassToColor(yallop.cls)
      [] criterion = "saao" -> saao.color
      [] criterion = "shaukat" -> shaukat.color
      [] OTHER -> zoneToColor(odeh.zone)

ApproximateMoonAgeOneDay == 20 + 4

\* line 321: saaoCriterion(data.moonAlt, 20), "Approximate moon age"
ApproximateMoonAge == 20

CalcBodyNoForce(lat, lon, criterion, sky) ==
    IF sky.fault = "sunset" THEN Throw
    ELSE IF ~sky.sunset THEN Return(RedPoint(lat, lon))
    ELSE IF sky.fault = "data" THEN Throw
    ELSE
        LET arcl == sky.elongation
            arcv == (sky.moonAlt - sky.sunAlt) * 10000000
            wPrime == calcCrescentWidth(arcl, sky.moonAlt, sky.distKm)
            odeh == odehCriterion(arcv, wPrime)
            yallop == yallopCriterion(arcl, arcv, wPrime)
            saao == saaoCriterion(sky.moonAlt, ApproximateMoonAge)
            shaukat == shaukatCriterion(arcl, sky.moonAlt)
        IN  Return([lat |-> lat, lon |-> lon,
                    color |-> CriterionColor(criterion, odeh, yallop, saao, shaukat),
                    moonAlt |-> sky.moonAlt, sunAlt |-> sky.sunAlt,
                    elongation |-> arcl,
                    odehZone |-> odeh.zone, yallopClass |-> yallop.cls])

\* the body of the try block, lines 303-366
CalcBody(lat, lon, criterion, sky) ==
    IF sky.fault = "sunset" THEN Throw
    ELSE IF ~sky.sunset THEN Return(RedPoint(lat, lon))
    ELSE IF sky.fault = "data" THEN Throw
    ELSE
        LET arcl == sky.elongation
            arcv == (sky.moonAlt - sky.sunAlt) * 10000000
            wPrime == calcCrescentWidth(arcl, sky.moonAlt, sky.distKm)
            odeh == odehCriterion(arcv, wPrime)
            yallop == yallopCriterion(arcl, arcv, wPrime)
            saao == saaoCriterion(sky.moonAlt, ApproximateMoonAge)
            shaukat == shaukatCriterion(arcl, sky.moonAlt)
        IN  IF sky.moonAlt < 0
            THEN Return([lat |-> lat, lon |-> lon, color |-> "red",
                         moonAlt |-> sky.moonAlt, sunAlt |-> sky.sunAlt,
                         elongation |-> arcl,
                         odehZone |-> "D", yallopClass |-> "F"])
            ELSE Return([lat |-> lat, lon |-> lon,
                         color |-> CriterionColor(criterion, odeh, yallop, saao, shaukat),
                         moonAlt |-> sky.moonAlt, sunAlt |-> sky.sunAlt,
                         elongation |-> arcl,
                         odehZone |-> odeh.zone, yallopClass |-> yallop.cls])

CalcNoCatch(lat, lon, criterion, sky) ==
    CalcBody(lat, lon, criterion, sky)

\* try { body } catch { return red point }
calculateVisibilityPoint(lat, lon, criterion, sky) ==
    LET body == CalcBody(lat, lon, criterion, sky)
    IN  IF body.kind = "throw" THEN Return(RedPoint(lat, lon)) ELSE body

Criteria == {"odeh", "yallop", "saao", "shaukat"}

\* what the provider may answer for one cell
SkyData ==
    [fault : {"none"}, sunset : {TRUE},
     moonAlt : {-5, -1, 0, 2, 3, 5, 6, 8, 10, 15},
     sunAlt : {-12, -1, 0},
     elongation : {0, 5, 8, 10, 12, 20, 30},
     distKm : {356500, 384400, 406700}]

SkyNoData(fault, sunset) ==
    [fault |-> fault, sunset |-> sunset, moonAlt |-> 0, sunAlt |-> 0,
     elongation |-> 0, distKm |-> 384400]

Skies ==
    SkyData \cup {SkyNoData("sunset", FALSE), SkyNoData("data", TRUE),
                  SkyNoData("none", FALSE)}

PtIdle == ptIn = None /\ ptOut = None

PtInit ==
    /\ \E lat \in {-120, 0} : \E lon \in {-360, 358} :
       \E c \in Criteria \cup {"danjon"} : \E sky \in Skies :
          ptIn = [kind |-> "args", lat |-> lat, lon |-> lon,
                  criterion |-> c, sky |-> sky]
    /\ ptOut = None

CallCalculateVisibilityPoint ==
    /\ ptIn # None
    /\ ptOut = None
    /\ ptOut' = calculateVisibilityPoint(ptIn.lat, ptIn.lon, ptIn.criterion, ptIn.sky)
    /\ UNCHANGED ptIn

PtNext == CallCalculateVisibilityPoint

(***************************************************************************)
(* generateVisibilityGrid.  Coordinates and stepDeg are in half degrees    *)
(* (0.5, 1, 2, 3 and 4 degrees are exact in binary floating point, so the  *)
(* loops accumulate no rounding error).                                    *)
(***************************************************************************)
\* number of iterations of  for (x = start; guard(x); x += step)  with step > 0:
\* the first k at which the guard fails, having held for every earlier k
LoopCount(start, limit, step, inclusive) ==
    LET Guard(k) == IF inclusive THEN start + k * step <= limit
                                 ELSE start + k * step < limit
    IN  CHOOSE k \in 0..MaxIter : ~Guard(k) /\ \A j \in 0..(k - 1) : Guard(j)

\* for (let lat = -maxLat; lat <= maxLat; lat += stepDeg) lats.push(lat)
Lats(step2, maxLat) ==
    [i \in 1..LoopCount(0 - 2 * maxLat, 2 * maxLat, step2, TRUE)
        |-> (0 - 2 * maxLat) + (i - 1) * step2]

LonsInclusive(step2) ==
    [i \in 1..LoopCount(-360, 360, step2, TRUE) |-> -360 + (i - 1) * step2]

\* for (let lon = -180; lon < 180; lon += stepDeg) lons.push(lon)
Lons(step2) ==
    [i \in 1..LoopCount(-360, 360, step2, FALSE) |-> -360 + (i - 1) * step2]

\* The sky of one day: what the provider answers at each cell.  A pattern
\* fixes which cells fault, whether high latitudes have no sunset, and the
\* moon's altitude and elongation as functions of the cell.
AltBands == <<-5, -1, 0, 2, 3, 5, 6, 8, 10, 15>>

ElongBands == <<5, 8, 10, 12, 20, 30>>

CellFaults(pattern, k, total) ==
    CASE pattern.faultAt = "none" -> FALSE
      [] pattern.faultAt = "first" -> k = 1
      [] pattern.faultAt = "second" -> k = 2
      [] pattern.faultAt = "last" -> k = total
      [] pattern.faultAt = "all" -> TRUE

CellSky(pattern, lat2, lon2, k, total) ==
    IF CellFaults(pattern, k, total) THEN SkyNoData(pattern.faultIn, TRUE)
    ELSE IF pattern.polar /\ (lat2 > 132 \/ lat2 < -132) THEN SkyNoData("none", FALSE)
    ELSE [fault |-> "none", sunset |-> TRUE,
          moonAlt |-> AltBands[(((lon2 + 360) \div 72) % 10) + 1],
          sunAlt |-> -1,
          elongation |-> ElongBands[(((lat2 + 180) \div 60) % 6) + 1],
          distKm |-> 384400]

\* the two nested loops of lines 405-417, then return points; a call that
\* throws ends the run
generateVisibilityGrid(step2, maxLat, criterion, pattern) ==
    LET lats == Lats(step2, maxLat)
        lons == Lons(step2)
        nLon == Len(lons)
        totalPoints == Len(lats) * nLon
        Cell(k) ==
            LET lat == lats[((k - 1) \div nLon) + 1]
                lon == lons[((k - 1) % nLon) + 1]
            IN  calculateVisibilityPoint(lat, lon, criterion,
                                         CellSky(pattern, lat, lon, k, totalPoints))
        calls == [k \in 1..totalPoints |-> Cell(k)]
    IN  IF \E k \in 1..totalPoints : calls[k].kind = "throw"
        THEN Throw
        ELSE Return([k \in 1..totalPoints |-> calls[k].value])

SkyPatterns ==
    [faultAt : {"none", "first", "second", "last", "all"},
     faultIn : {"sunset", "data"},
     polar : BOOLEAN]

\* small lattices under every sky pattern and criterion; the lattices of the
\* 2, 3 and 4 degree resolutions under a few
GridInputs ==
    [kind : {"args"}, step2 : {120, 180}, maxLat : {60, 80},
     criterion : {"odeh", "shaukat"}, pattern : SkyPatterns]
    \cup
    [kind : {"args"}, step2 : {4, 6, 8}, maxLat : {60, 70},
     criterion : {"odeh"},
     pattern : [faultAt : {"none", "last"}, faultIn : {"data"}, polar : {TRUE}]]

GridIdle == gridIn = None /\ gridOut = None

GridInit == gridIn \in GridInputs /\ gridOut = None

CallGenerateVisibilityGrid ==
    /\ gridIn # None
    /\ gridOut = None
    /\ gridOut' = generateVisibilityGrid(gridIn.step2, gridIn.maxLat,
                                         gridIn.criterion, gridIn.pattern)
    /\ UNCHANGED gridIn

\* the coordinate loops alone, lines 390-399
LatIdle == latIn = None /\ latOut = None

LatInit ==
    /\ \E step2 \in 1..MaxStep2 : \E maxLat \in {10, 20, 30, 40, 50, 60, 70, 80, 90} :
          latIn = [kind |-> "args", step2 |-> step2, maxLat |-> maxLat]
    /\ latOut = None

BuildCoordinateArrays ==
    /\ latIn # None
    /\ latOut = None
    /\ latOut' = [kind |-> "arrays",
                  lats |-> Lats(latIn.step2, latIn.maxLat),
                  lons |-> Lons(latIn.step2)]
    /\ UNCHANGED latIn

(***************************************************************************)
(* Frontend Home (frontend/src/app/page.tsx): handleGenerate, handleCancel *)
(* and the fetchVisibility call they drive.  A run is one handleGenerate   *)
(* call with its AbortController; between its awaits other handlers run.   *)
(***************************************************************************)
\* what the backend may send as the result of a request
ServerResponses ==
    {[points |-> <<[lat |-> 0, lon |-> 0, color |-> "green"],
                   [lat |-> 0, lon |-> 4, color |-> "red"]>>,
      calc_time_ms |-> 7],
     [points |-> <<[lat |-> 0, lon |-> 0, color |-> "yellow"],
                   [lat |-> 0, lon |-> 4, color |-> "orange"],
                   [lat |-> 4, lon |-> 0, color |-> "red"]>>,
      calc_time_ms |-> 9]}

ProgressChunks == {[progress |-> 50, status |-> "Calculating"]}

\* a line of the stream whose JSON has an error field
ErrorChunks == {[error |-> "Calculation failed"]}

\* new Error(message)
Error(message) == [kind |-> "Error", message |-> message]

FeIdle ==
    /\ points = <<>> /\ isLoading = FALSE /\ status = "Idle" /\ progress = 0
    /\ abortControllerRef = 0 /\ runs = <<>>

\* lines 56-58, 69-70: the state after the first render
FeInit ==
    /\ points = <<>>
    /\ isLoading = FALSE
    /\ status = "Ready"
    /\ progress = 0
    /\ abortControllerRef = 0
    /\ runs = <<>>

Abort(rs, r) == IF r = 0 THEN rs ELSE [rs EXCEPT ![r].aborted = TRUE]

\* lines 87-105, up to the await of fetch inside fetchVisibility
HandleGenerate ==
    /\ Len(runs) < MaxRuns
    /\ runs' = Append(Abort(runs, abortControllerRef),
                      [phase |-> "fetching", aborted |-> FALSE,
                       result |-> None, lines |-> 0,
                       errorLine |-> None, rejection |-> None])
    /\ abortControllerRef' = Len(runs) + 1
    /\ isLoading' = TRUE
    /\ status' = "Initializing..."
    /\ progress' = 0
    /\ UNCHANGED points

\* lines 145-153
HandleCancel ==
    /\ abortControllerRef # 0
    /\ runs' = Abort(runs, abortControllerRef)
    /\ abortControllerRef' = 0
    /\ isLoading' = FALSE
    /\ status' = "Cancelled"
    /\ progress' = 0
    /\ UNCHANGED points

NeverDiscard(run) == FALSE

\* line 125: if (abortController.signal.aborted) return
DiscardResult(run) == run.aborted

\* lines 123-129 and 137-142: fetchVisibility resolved with res
Resolved(r, res) ==
    /\ runs' = [runs EXCEPT ![r].phase = "settled", ![r].result = res]
    /\ IF DiscardResult(runs[r])
       THEN UNCHANGED <<points, isLoading, status, progress, abortControllerRef>>
       ELSE /\ progress' = 100
            /\ points' = res.points
            /\ status' = [points |-> Len(res.points), ms |-> res.calc_time_ms]
            /\ IF ~runs[r].aborted
               THEN isLoading' = FALSE /\ abortControllerRef' = 0
               ELSE UNCHANGED <<isLoading, abortControllerRef>>

\* lines 130-142: fetchVisibility rejected; the error is never an AbortError,
\* because fetch is called without the signal
Rejected(r, error) ==
    /\ runs' = [runs EXCEPT ![r].phase = "settled", ![r].result = None,
                            ![r].rejection = error]
    /\ status' = "Error generating map"
    /\ IF ~runs[r].aborted
       THEN isLoading' = FALSE /\ abortControllerRef' = 0
       ELSE UNCHANGED <<isLoading, abortControllerRef>>
    /\ UNCHANGED <<points, progress>>

\* api.ts lines 66-77: the response arrives with a readable body
FetchOk ==
    \E r \in 1..Len(runs) :
        /\ runs[r].phase = "fetching"
        /\ runs' = [runs EXCEPT ![r].phase = "streaming"]
        /\ UNCHANGED <<points, isLoading, status, progress, abortControllerRef>>

\* api.ts lines 66-74: fetch rejects, or the response is not ok
FetchFail ==
    \E r \in 1..Len(runs) :
        /\ runs[r].phase = "fetching"
        /\ Rejected(r, Error("Failed to connect to API"))

\* api.ts lines 77-81: no reader, the body is read as one JSON document
FetchJson ==
    \E r \in 1..Len(runs) : \E res \in ServerResponses :
        /\ runs[r].phase = "fetching"
        /\ Resolved(r, res)

\* api.ts lines 102-104 with the callback of page.tsx lines 115-120
StreamProgress ==
    \E r \in 1..Len(runs) : \E c \in ProgressChunks :
        /\ runs[r].phase = "streaming"
        /\ runs[r].lines < MaxLines
        /\ runs' = [runs EXCEPT ![r].lines = @ + 1]
        /\ IF ~runs[r].aborted
           THEN progress' = c.progress /\ status' = c.status
           ELSE UNCHANGED <<progress, status>>
        /\ UNCHANGED <<points, isLoading, abortControllerRef>>

\* api.ts lines 106-108
StreamResult ==
    \E r \in 1..Len(runs) : \E res \in ServerResponses :
        /\ runs[r].phase = "streaming"
        /\ runs[r].lines < MaxLines
        /\ runs' = [runs EXCEPT ![r].lines = @ + 1, ![r].result = res]
        /\ UNCHANGED <<points, isLoading, status, progress, abortControllerRef>>

\* api.ts lines 110-115: the Error thrown for an error line is caught by the
\* catch around the line's parsing, and reading goes on
StreamError ==
    \E r \in 1..Len(runs) : \E c \in ErrorChunks :
        /\ runs[r].phase = "streaming"
        /\ runs[r].lines < MaxLines
        /\ runs' = [runs EXCEPT ![r].lines = @ + 1, ![r].errorLine = c]
        /\ UNCHANGED <<points, isLoading, status, progress, abortControllerRef>>

\* api.ts lines 90, 118-123: the stream is done
StreamEnd ==
    \E r \in 1..Len(runs) :
        /\ runs[r].phase = "streaming"
        /\ IF runs[r].result # None
           THEN Resolved(r, runs[r].result)
           ELSE Rejected(r, Error("Stream ended without returning a result"))

\* api.ts line 89: reader.read() rejects
ReadFails ==
    \E r \in 1..Len(runs) :
        /\ runs[r].phase = "streaming"
        /\ Rejected(r, Error("read failed"))

(***************************************************************************)
(* Conjunction resolver.  Instants are whole hours.  The provider's        *)
(* searches are black boxes: `sky.geo` is what SearchMoonPhase answers,    *)
(* `sky.search` what Astronomy.Search answers for the window it is given   *)
(* (no root, a fault, or a root at a fraction of the window).              *)
(***************************************************************************)
Null == [kind |-> "null"]

\* Astronomy.SearchMoonPhase(0, startTime, limitDays)
SearchMoonPhase(startTime, limitDays, sky) ==
    CASE sky.geo.kind = "throw" -> Throw
      [] sky.geo.kind = "null" -> Return(Null)
      [] OTHER -> Return([kind |-> "time",
                          t |-> startTime + (sky.geo.frac * limitDays * 24) \div 4])

\* Astronomy.MoonPhase(t), in half degrees: 0 at the geocentric conjunction
MoonPhase(t, geoTime) == (t - geoTime) % 720

\* Astronomy.Search(f, t1, t2): null, or a root inside [t1, t2]
Search(t1, t2, sky) ==
    CASE sky.search.kind = "throw" -> Throw
      [] sky.search.kind = "null" -> Return(Null)
      [] OTHER -> Return([kind |-> "time",
                          t |-> t1 + (sky.search.frac * (t2 - t1)) \div 4])

findGeocentricConjunction(startDate, limitDays, sky) ==
    LET conjunction == SearchMoonPhase(startDate, limitDays, sky)
    IN  IF conjunction.kind = "throw" THEN Null
        ELSE IF conjunction.value = Null THEN Null
        ELSE [kind |-> "result",
              time |-> conjunction.value.t,
              type |-> "geocentric",
              moonPhase |-> MoonPhase(conjunction.value.t, conjunction.value.t)]

WindowTwoDays(t1) == t1 + 48

\* t1.AddDays(1)
WindowEnd(t1) == t1 + 24

findTopocentricConjunction(lat, lon, startDate, limitDays, sky) ==
    LET geocentric == findGeocentricConjunction(startDate, limitDays, sky)
    IN  IF geocentric = Null THEN Null
        ELSE
            LET searchStart == geocentric.time - 12
                t1 == searchStart
                t2 == WindowEnd(t1)
                conjunction == Search(t1, t2, sky)
            IN  IF conjunction.kind = "throw" THEN Null
                ELSE IF conjunction.value = Null
                THEN [kind |-> "result",
                      time |-> geocentric.time,
                      type |-> "topocentric",
                      moonPhase |-> geocentric.moonPhase]
                ELSE [kind |-> "result",
                      time |-> conjunction.value.t,
                      type |-> "topocentric",
                      moonPhase |-> MoonPhase(conjunction.value.t, geocentric.time)]

GeoAnswers ==
    {[kind |-> "null", frac |-> 0], [kind |-> "throw", frac |-> 0]}
    \cup [kind : {"time"}, frac : {0, 1, 4}]

SearchAnswers ==
    {[kind |-> "null", frac |-> 0], [kind |-> "throw", frac |-> 0]}
    \cup [kind : {"root"}, frac : 0..4]

ConjSkies == [geo : GeoAnswers, search : SearchAnswers]

ConjInputs ==
    [kind : {"args"}, lat : {0}, lon : {0}, startDate : {0, 24},
     limitDays : {35, -30}, sky : ConjSkies]

ConjIdle == conjIn = None /\ conjOut = None

ConjInit == conjIn \in ConjInputs /\ conjOut = None

CallFindTopocentricConjunction ==
    /\ conjIn # None
    /\ conjOut = None
    /\ conjOut' = findTopocentricConjunction(conjIn.lat, conjIn.lon, conjIn.startDate,
                                             conjIn.limitDays, conjIn.sky)
    /\ UNCHANGED conjIn

(***************************************************************************)
(* Calls of the exported functions of astronomy.ts, one per behaviour.     *)
(* The sky of a call is what the provider answers: `sunset` and `moonset`  *)
(* for the rise/set searches, `geo` and `search` for the conjunction        *)
(* searches, `frameFault` the frame at which a position query throws (0    *)
(* for none).  Trajectory instants are minutes; moon ages are minutes too. *)
(***************************************************************************)
ApiIdle == apiIn = None /\ apiOut = None

\* Math.round(lon / 15), lon in half degrees
TzOffsetHours(lon) == (lon + 15) \div 30

\* Astronomy.SearchRiseSet(body, observer, -1, startTime, limitDays): the
\* provider looks for the next setting in [startTime, startTime + limitDays]
\* and answers with an instant of that window (`frac` quarters of the way
\* through it), with null when the body does not set in it, or it throws.
\* Instants are hours.
SearchRiseSet(startTime, limitDays, answer) ==
    CASE answer.kind = "throw" -> Throw
      [] answer.kind = "null" -> Return(Null)
      [] OTHER -> Return([kind |-> "time",
                          t |-> startTime + (answer.frac * limitDays * 24) \div 4])

\* the limitDays argument of both rise/set searches (lines 88 and 109)
SearchLimitDays == 1

LocalNoonPlusOffset(lon, day) == 24 * day + 12 + TzOffsetHours(lon)

\* line 79: Date.UTC(year, month - 1, day, 12 - tzOffsetHours, 0, 0), in hours,
\* `day` being the number of the calendar date
LocalNoonUTC(lon, day) == 24 * day + 12 - TzOffsetHours(lon)

FindSunsetThrows(lat, lon, day, sky) ==
    LET sunset == SearchRiseSet(LocalNoonUTC(lon, day), SearchLimitDays, sky.sunset)
    IN  IF sunset.kind = "return" /\ sunset.value # Null THEN sunset ELSE Throw

\* lines 65-92
findSunset(lat, lon, day, sky) ==
    LET startTime == LocalNoonUTC(lon, day)
    IN  SearchRiseSet(startTime, SearchLimitDays, sky.sunset)

\* lines 97-113
findMoonset(lat, lon, startTime, sky) ==
    SearchRiseSet(startTime, SearchLimitDays, sky.moonset)

\* Math.atan2(dy, dx) * RAD2DEG, to the octant
Atan2Deg(dy, dx) ==
    CASE dx > 0 /\ dy > 0 -> 45
      [] dx > 0 /\ dy = 0 -> 0
      [] dx > 0 /\ dy < 0 -> -45
      [] dx = 0 /\ dy > 0 -> 90
      [] dx = 0 /\ dy = 0 -> 0
      [] dx = 0 /\ dy < 0 -> -90
      [] dx < 0 /\ dy > 0 -> 135
      [] dx < 0 /\ dy = 0 -> 180
      [] dx < 0 /\ dy < 0 -> -135

\* the provider's positions i minutes after sunset (Equator, Horizon,
\* AngleBetween, Illumination), in whole degrees and percent
PositionsAt(sky, i) ==
    [sunAlt |-> 0 - (i \div 4), sunAz |-> 270,
     moonAlt |-> sky.moonAlt - (i \div 5), moonAz |-> 265,
     elongation |-> sky.elongation, illumination |-> 1]

\* the object pushed for the frame at offset i (lines 453-480); |moonAlt| < 90,
\* so the cosine in dx is positive
SimulationPoint(sky, i) ==
    LET pos == PositionsAt(sky, i)
        dy == pos.sunAlt - pos.moonAlt
        dx == pos.sunAz - pos.moonAz
        tiltFromRight == Atan2Deg(dy, dx)
    IN  [timeOffsetMin |-> i,
         sunAlt |-> pos.sunAlt, sunAz |-> pos.sunAz,
         moonAlt |-> pos.moonAlt, moonAz |-> pos.moonAz,
         illumination |-> pos.illumination,
         elongation |-> pos.elongation,
         tilt |-> 90 - tiltFromRight]

\* the values of i in  for (let i = 0; i <= limit; i += 2)
FrameOffsets(limit) ==
    [k \in 1..LoopCount(0, limit, 2, TRUE) |-> (k - 1) * 2]

\* the body shared by both variants of getSimulationTrajectory; an exception
\* anywhere in it is caught and null returned
SimulationTrajectory(lat, lon, day, sky, limit) ==
    LET sunset == findSunset(lat, lon, day, sky)
    IN  IF sunset.kind = "throw" THEN Null
        ELSE IF sunset.value = Null THEN Null
        ELSE
            LET offs == FrameOffsets(limit)
            IN  IF sky.frameFault \in 1..Len(offs) THEN Null
                ELSE [kind |-> "simulation",
                      sunsetIso |-> 60 * sunset.value.t,
                      trajectory |-> [k \in 1..Len(offs) |->
                                         SimulationPoint(sky, offs[k])]]

\* lines 430-491: for (let i = 0; i <= 150; i += 2)
getSimulationTrajectory(lat, lon, day, sky) ==
    SimulationTrajectory(lat, lon, day, sky, 150)

\* lines 1421-1482, the earlier variant: for (let i = 0; i <= 75; i += 2)
getSimulationTrajectoryEarlier(lat, lon, day, sky) ==
    SimulationTrajectory(lat, lon, day, sky, 75)

\* lines 496-509, with lat and lon given; completes with an instant in hours,
\* with null, or with the exception of SearchMoonPhase
findRecentConjunction(date, type, lat, lon, sky) ==
    IF type = "topocentric"
    THEN LET result == findTopocentricConjunction(lat, lon, date, -30, sky)
         IN  IF result = Null THEN Return(Null)
             ELSE Return([kind |-> "time", t |-> result.time])
    ELSE SearchMoonPhase(date, -30, sky)

\* (observationTime - conjunctionTime) / (1000 * 60 * 60), kept in minutes
calculateMoonAge(observationTime, conjunctionTime) ==
    observationTime - conjunctionTime

Abs(x) == IF x < 0 THEN 0 - x ELSE x


Some(v) == [kind |-> "some", v |-> v]

FrameConjunctionTopo(conjGeo, conjTopo) ==
    IF conjTopo # Null THEN conjTopo ELSE conjGeo

\* line 674: the conjunction a frame's moon age is counted from
FrameConjunction(conjGeo, conjTopo) == conjGeo

\* lines 611-711
getEnhancedSimulationTrajectory(lat, lon, day, sky) ==
    LET sunset == findSunset(lat, lon, day, sky)
    IN  IF sunset.kind = "throw" THEN Null
        ELSE IF sunset.value = Null THEN Null
        ELSE
            LET conjGeo == findRecentConjunction(sunset.value.t, "geocentric", lat, lon, sky)
                conjTopo == findRecentConjunction(sunset.value.t, "topocentric", lat, lon, sky)
            IN  IF conjGeo.kind = "throw" THEN Null
                ELSE IF conjGeo.value = Null THEN Null
                ELSE
                    LET sunsetMin == 60 * sunset.value.t
                        geoMin == 60 * conjGeo.value.t
                        hasTopo == conjTopo.value # Null
                        topoMin == IF hasTopo THEN 60 * conjTopo.value.t ELSE 0
                        moonAgeGeo == calculateMoonAge(sunsetMin, geoMin)
                        moonAgeTopo == IF hasTopo
                                       THEN Some(calculateMoonAge(sunsetMin, topoMin))
                                       ELSE Null
                        moonset == findMoonset(lat, lon, sunset.value.t, sky)
                        tzOffsetHours == TzOffsetHours(lon)
                        conjLocalGeo == geoMin + tzOffsetHours * 60
                        conjLocalTopo == IF hasTopo
                                         THEN Some(topoMin + tzOffsetHours * 60)
                                         ELSE Null
                        offs == FrameOffsets(150)
                        frameConj == FrameConjunction(conjGeo.value, conjTopo.value)
                    IN  IF moonset.kind = "throw" THEN Null
                        ELSE IF sky.frameFault \in 1..Len(offs) THEN Null
                        ELSE [kind |-> "enhanced",
                              sunsetIso |-> sunsetMin,
                              moonsetIso |-> IF moonset.value = Null THEN Null
                                             ELSE Some(60 * moonset.value.t),
                              conjunctionIso |-> geoMin,
                              conjunctionLocal |-> conjLocalGeo,
                              moonAgeHours |-> moonAgeGeo,
                              conjunctionIsoGeo |-> geoMin,
                              conjunctionLocalGeo |-> conjLocalGeo,
                              moonAgeHoursGeo |-> moonAgeGeo,
                              conjunctionIsoTopo |-> IF hasTopo THEN Some(topoMin) ELSE Null,
                              conjunctionLocalTopo |-> conjLocalTopo,
                              moonAgeHoursTopo |-> moonAgeTopo,
                              trajectory |-> [k \in 1..Len(offs) |->
                                  [moonAge |-> calculateMoonAge(sunsetMin + offs[k],
                                                                60 * frameConj.t)]
                                  @@ SimulationPoint(sky, offs[k])],
                              meta |-> [lat |-> lat, lon |-> lon]]

\* lines 940-974; the differences are kept in minutes and hours
getConjunctionComparison(lat, lon, referenceDate, sky) ==
    LET geocentric == findGeocentricConjunction(referenceDate, 35, sky)
        topocentric == findTopocentricConjunction(lat, lon, referenceDate, 35, sky)
    IN  IF geocentric = Null THEN Null
        ELSE IF topocentric = Null THEN Null
        ELSE
            LET diffHours == topocentric.time - geocentric.time
            IN  [kind |-> "comparison",
                 geocentric |-> geocentric,
                 topocentric |-> topocentric,
                 differenceMinutes |-> Abs(60 * diffHours),
                 differenceHours |-> Abs(diffHours),
                 topocentricIsEarlier |-> diffHours < 0]

\* lines 979-991; observer is Null when not given; a Date is always truthy
getNextNewMoon(referenceDate, conjunctionType, observer, sky) ==
    LET result == IF conjunctionType = "topocentric" /\ observer # Null
                  THEN findTopocentricConjunction(observer.lat, observer.lon,
                                                  referenceDate, 35, sky)
                  ELSE findGeocentricConjunction(referenceDate, 35, sky)
    IN  IF result = Null THEN Null ELSE [kind |-> "time", t |-> result.time]

\* Math.round(num / den) for num >= 0, den > 0: halves round up
RoundDiv(num, den) == (2 * num + den) \div (2 * den)

OnProgressNoFinal(totalPoints) ==
    [j \in 1..(totalPoints \div 100) |->
        [processedPoints |-> 100 * j,
         progress |-> RoundDiv(100 * j * 100, totalPoints)]]

\* lines 412-421: the calls onProgress receives during a run of totalPoints
\* cells, each with the number of cells processed when it is made
OnProgressCalls(totalPoints) ==
    [j \in 1..((totalPoints \div 100) + 1) |->
        IF j <= totalPoints \div 100
        THEN [processedPoints |-> 100 * j,
              progress |-> RoundDiv(100 * j * 100, totalPoints)]
        ELSE [processedPoints |-> totalPoints, progress |-> 100]]

\* what the provider may answer to a trajectory call
NullAnswer == [kind |-> "null", frac |-> 0]

ThrowAnswer == [kind |-> "throw", frac |-> 0]

TrajectorySkies ==
    [sunset : {NullAnswer, ThrowAnswer, [kind |-> "time", frac |-> 1],
               [kind |-> "time", frac |-> 2]},
     moonset : {NullAnswer},
     frameFault : {0, 1, 38, 76},
     moonAlt : {5, 10}, elongation : {12},
     geo : {[kind |-> "null", frac |-> 0]},
     search : {[kind |-> "null", frac |-> 0]}]

EnhancedSkies ==
    [sunset : {NullAnswer, ThrowAnswer, [kind |-> "time", frac |-> 1]},
     moonset : {NullAnswer, ThrowAnswer, [kind |-> "time", frac |-> 1]},
     frameFault : {0, 76},
     moonAlt : {10}, elongation : {12},
     geo : GeoAnswers,
     search : {[kind |-> "null", frac |-> 0], [kind |-> "throw", frac |-> 0],
               [kind |-> "root", frac |-> 0], [kind |-> "root", frac |-> 4]}]

Observers == {[lat |-> 0, lon |-> 0], [lat |-> 43, lon |-> -315]}

\* what the provider may answer to a rise/set search
RiseSetAnswers ==
    {NullAnswer, ThrowAnswer} \cup [kind : {"time"}, frac : 0..4]

\* longitudes in half degrees: -180 and 180, the meridian, and both sides of
\* the longitudes at which Math.round(lon / 15) changes
Longitudes ==
    {-360, -346, -345, -344, -315, -46, -45, -44, -16, -15, -14, -1, 0, 1,
     14, 15, 16, 44, 45, 46, 195, 225, 344, 345, 346, 360}

ApiInputs ==
    [fn : {"findSunset"}, at : [lat : {0, 43}, lon : Longitudes], day : {0, 1},
     sky : [sunset : RiseSetAnswers]]
    \cup [fn : {"findMoonset"}, at : Observers, startTime : {0, 18, 34},
          sky : [moonset : RiseSetAnswers]]
    \cup [fn : {"calculateVisibilityPoint"}, at : Observers, criterion : Criteria,
          sky : {SkyNoData("none", FALSE), SkyNoData("sunset", FALSE),
                 SkyNoData("data", TRUE)}
                \cup {x \in SkyData : x.moonAlt = 10 /\ x.sunAlt = -1
                                      /\ x.distKm = 384400}]
    \cup [fn : {"getSimulationTrajectory", "getSimulationTrajectoryEarlier"},
          at : Observers, day : {0}, sky : TrajectorySkies]
    \cup [fn : {"getEnhancedSimulationTrajectory"}, at : Observers, day : {0},
          sky : EnhancedSkies]
    \cup [fn : {"findGeocentricConjunction"}, startDate : {0, 24},
          limitDays : {35, -30}, sky : [geo : GeoAnswers]]
    \cup [fn : {"findTopocentricConjunction"}, at : {[lat |-> 43, lon |-> -315]},
          startDate : {0}, limitDays : {35, -30}, sky : ConjSkies]
    \cup [fn : {"getConjunctionComparison"}, at : Observers,
          referenceDate : {0, 24}, sky : ConjSkies]
    \cup [fn : {"getNextNewMoon"}, referenceDate : {0},
          conjunctionType : {"geocentric", "topocentric"},
          observer : {Null} \cup Observers, sky : ConjSkies]
    \cup [fn : {"saaoCriterion"}, moonAlt : {2, 3, 5, 6, 9, 10, 11},
          moonAge : {14, 15, 17, 18, 20, 23, 24, 25}]
    \cup [fn : {"shaukatCriterion"}, elongation : {7, 8, 9, 10, 11, 12, 13},
          moonAlt : {1, 2, 4, 5, 7, 8, 9}]
    \cup [fn : {"calcCrescentWidth"}, arclDeg : {0, 5, 8, 10, 12, 20, 30, 90, 180},
          moonAltDeg : {-90, -5, 0, 5, 15, 90},
          distKm : {3000, 6378, 356500, 384400, 406700}]
    \cup {[fn |-> "generateVisibilityGrid", step2 |-> g[1], maxLat |-> g[2],
           criterion |-> "odeh",
           pattern |-> [faultAt |-> "none", faultIn |-> "data", polar |-> FALSE]] :
             g \in {<<4, 60>>, <<8, 60>>, <<36, 40>>, <<36, 85>>, <<9, 21>>,
                    <<120, 60>>}}

ApiInit == apiIn \in ApiInputs /\ apiOut = None

\* one call of the function named by apiIn.fn
Call(fn, completion) ==
    /\ apiIn # None
    /\ apiIn.fn = fn
    /\ apiOut = None
    /\ apiOut' = completion
    /\ UNCHANGED apiIn

CallFindSunset ==
    Call("findSunset", findSunset(apiIn.at.lat, apiIn.at.lon, apiIn.day, apiIn.sky))

CallFindMoonset ==
    Call("findMoonset",
         findMoonset(apiIn.at.lat, apiIn.at.lon, apiIn.startTime, apiIn.sky))

CallPoint ==
    Call("calculateVisibilityPoint",
         calculateVisibilityPoint(apiIn.at.lat, apiIn.at.lon, apiIn.criterion, apiIn.sky))

CallGetSimulationTrajectory ==
    Call("getSimulationTrajectory",
         Return(getSimulationTrajectory(apiIn.at.lat, apiIn.at.lon, apiIn.day,
                                        apiIn.sky)))

CallGetSimulationTrajectoryEarlier ==
    Call("getSimulationTrajectoryEarlier",
         Return(getSimulationTrajectoryEarlier(apiIn.at.lat, apiIn.at.lon, apiIn.day,
                                               apiIn.sky)))

CallGetEnhancedSimulationTrajectory ==
    Call("getEnhancedSimulationTrajectory",
         Return(getEnhancedSimulationTrajectory(apiIn.at.lat, apiIn.at.lon,
                                                apiIn.day, apiIn.sky)))

CallFindGeocentricConjunction ==
    Call("findGeocentricConjunction",
         Return(findGeocentricConjunction(apiIn.startDate, apiIn.limitDays, apiIn.sky)))

CallTopocentric ==
    Call("findTopocentricConjunction",
         Return(findTopocentricConjunction(apiIn.at.lat, apiIn.at.lon, apiIn.startDate,
                                           apiIn.limitDays, apiIn.sky)))

CallGetConjunctionComparison ==
    Call("getConjunctionComparison",
         Return(getConjunctionComparison(apiIn.at.lat, apiIn.at.lon,
                                         apiIn.referenceDate, apiIn.sky)))

CallGetNextNewMoon ==
    Call("getNextNewMoon",
         Return(getNextNewMoon(apiIn.referenceDate, apiIn.conjunctionType,
                               apiIn.observer, apiIn.sky)))

CallSaaoCriterion ==
    Call("saaoCriterion", Return(saaoCriterion(apiIn.moonAlt, apiIn.moonAge)))

CallShaukatCriterion ==
    Call("shaukatCriterion", Return(shaukatCriterion(apiIn.elongation, apiIn.moonAlt)))

CallCalcCrescentWidth ==
    Call("calcCrescentWidth",
         Return(calcCrescentWidth(apiIn.arclDeg, apiIn.moonAltDeg, apiIn.distKm)))

\* generateVisibilityGrid given an onProgress callback: the completion carries
\* the calls the callback received
CallGridWithProgress ==
    Call("generateVisibilityGrid",
         [onProgress |-> OnProgressCalls(Len(Lats(apiIn.step2, apiIn.maxLat))
                                         * Len(Lons(apiIn.step2)))]
         @@ generateVisibilityGrid(apiIn.step2, apiIn.maxLat, apiIn.criterion,
                                   apiIn.pattern))

(***************************************************************************)
(* The NDJSON reader of fetchVisibility (frontend/src/lib/api.ts 83-123).  *)
(* The response is a sequence of characters delivered in chunks.  A line   *)
(* is a JSON object given by its members: p a progress member, r a result  *)
(* member, e an error member; blanks between members are insignificant.    *)
(* Members out of the order p, r, e, or repeated, stand for text that      *)
(* JSON.parse rejects.                                                     *)
(***************************************************************************)
LF == "\n"

SP == " "

Characters == {"p", "r", "e", SP, LF}

\* line.trim(), and the blanks JSON.parse skips
Trim(line) == SelectSeq(line, LAMBDA c : c # SP)

MemberRank(c) == CASE c = "p" -> 1 [] c = "r" -> 2 [] c = "e" -> 3 [] OTHER -> 4

\* does JSON.parse(line) return
Parses(doc) ==
    /\ Len(doc) >= 1
    /\ \A i \in 1..Len(doc) : MemberRank(doc[i]) <= 3
    /\ \A i \in 1..(Len(doc) - 1) : MemberRank(doc[i]) < MemberRank(doc[i + 1])

Has(doc, c) == \E i \in 1..Len(doc) : doc[i] = c

StreamResult1 == [points |-> <<[lat |-> 0, lon |-> 0, color |-> "green"]>>,
                  calc_time_ms |-> 7]

RECURSIVE Split(_)
\* buffer.split('\n')
Split(buffer) ==
    IF \A i \in 1..Len(buffer) : buffer[i] # LF
    THEN <<buffer>>
    ELSE LET i == CHOOSE j \in 1..Len(buffer) :
                      buffer[j] = LF /\ \A k \in 1..(j - 1) : buffer[k] # LF
         IN  <<SubSeq(buffer, 1, i - 1)>> \o Split(SubSeq(buffer, i + 1, Len(buffer)))

\* lines 97-116: one line of the for loop; whatever is thrown inside the try,
\* the Error of an error member included, is caught and logged
ProcessLine(st, line) ==
    LET doc == Trim(line)
    IN  IF doc = <<>> THEN st
        ELSE IF ~Parses(doc) THEN st
        ELSE [st EXCEPT
                !.calls = IF Has(doc, "p")
                          THEN Append(@, [progress |-> 50, status |-> ""])
                          ELSE @,
                !.result = IF Has(doc, "r") THEN StreamResult1 ELSE @]

RECURSIVE ProcessLines(_, _)
ProcessLines(st, lines) ==
    IF lines = <<>> THEN st
    ELSE ProcessLines(ProcessLine(st, Head(lines)), Tail(lines))

DroppedRemainder(lines) == <<>>

\* line 95: buffer = lines.pop() || ''
PoppedRemainder(lines) == lines[Len(lines)]

\* lines 92-116: the body of the while loop for one chunk
ReadChunk(st, value) ==
    LET lines == Split(st.buffer \o value)
        kept == PoppedRemainder(lines)
    IN  ProcessLines([st EXCEPT !.buffer = kept], SubSeq(lines, 1, Len(lines) - 1))

RECURSIVE ReadLoop(_, _)
ReadLoop(st, chunks) ==
    IF chunks = <<>> THEN st
    ELSE ReadLoop(ReadChunk(st, Head(chunks)), Tail(chunks))

\* lines 83-123: the calls onProgress received and how the promise settles
ReadStream(chunks) ==
    LET st == ReadLoop([buffer |-> <<>>, result |-> None, calls |-> <<>>], chunks)
    IN  [onProgress |-> st.calls,
         settled |-> IF st.result # None
                     THEN Return(st.result)
                     ELSE [kind |-> "throw",
                           error |-> Error("Stream ended without returning a result")]]

RECURSIVE Chunks(_, _)
\* the chunks reader.read() delivers when the stream is cut after every
\* position i with cut[i]
Chunks(bytes, cut) ==
    IF bytes = <<>> THEN <<>>
    ELSE LET n == Len(bytes)
             i == IF \E j \in 1..(n - 1) : cut[j]
                  THEN CHOOSE j \in 1..(n - 1) :
                           cut[j] /\ \A k \in 1..(j - 1) : ~cut[k]
                  ELSE n
         IN  <<SubSeq(bytes, 1, i)>>
             \o Chunks(SubSeq(bytes, i + 1, n), [k \in 1..(n - i) |-> cut[k + i]])

RECURSIVE Flatten(_)
Flatten(chunks) ==
    IF chunks = <<>> THEN <<>> ELSE Head(chunks) \o Flatten(Tail(chunks))

StreamInputs ==
    {[fn |-> "fetchVisibility", chunks |-> Chunks(b, cut)] :
        <<b, cut>> \in UNION {[1..n -> Characters] \X [1..n -> BOOLEAN] :
                                n \in 0..MaxBytes}}

StreamInit == apiIn \in StreamInputs /\ apiOut = None

CallFetchVisibility ==
    Call("fetchVisibility", ReadStream(apiIn.chunks))

(***************************************************************************)
(* In-browser Home (part_000): handleCalculate and the grid run it starts. *)
(***************************************************************************)
HomeIdle ==
    /\ visibilityPoints = 0 /\ isCalculating = FALSE /\ calcProgress = 0
    /\ timers = <<>> /\ heap = <<>> /\ gridRun = None

\* useState initial values, lines 112-114: the displayed list is the empty
\* array allocated at the first render
HomeInit ==
    /\ heap = << <<>> >>
    /\ visibilityPoints = 1
    /\ isCalculating = FALSE
    /\ calcProgress = 0
    /\ timers = <<>>
    /\ gridRun = None

\* the settings a run may be started with (resolution, maxLat, criterion) and
\* the sky of the selected date
HomeSettings ==
    [step2 : {180, 240}, maxLat : {60}, criterion : {"odeh", "shaukat"},
     pattern : {[faultAt |-> "none", faultIn |-> "data", polar |-> FALSE],
                [faultAt |-> "first", faultIn |-> "data", polar |-> FALSE]}]

\* RESOLUTIONS (0.5, 1, 2, 3, 4 degrees) and LAT_COVERAGE (60, 70, 80), lines
\* 142-154: every setting the two selects offer, under a sky with a faulting
\* cell and sunless polar cells
SelectableSettings ==
    [step2 : {1, 2, 4, 6, 8}, maxLat : {60, 70, 80}, criterion : {"odeh"},
     pattern : {[faultAt |-> "first", faultIn |-> "data", polar |-> TRUE]}]

\* the selectable settings whose runs are followed step by step
CoarseSettings == {settings \in SelectableSettings : settings.step2 >= 2}

ButtonNeverDisabled == FALSE

\* line 620: disabled={isCalculating}
ButtonDisabled == isCalculating

\* lines 418-424 and 431: the click handler up to setTimeout, for a click
\* under one of the given settings
Click(given) ==
    /\ gridRun = None
    /\ ~ButtonDisabled
    /\ \E settings \in given : timers' = Append(timers, settings)
    /\ isCalculating' = TRUE
    /\ calcProgress' = 0
    /\ UNCHANGED <<visibilityPoints, heap, gridRun>>

\* a click on Calculate
HandleCalculate ==
    /\ Len(heap) <= MaxGridRuns
    /\ Click(HomeSettings)

\* the first click on Calculate after the page has loaded
FirstCalculate ==
    /\ Len(heap) = 1
    /\ Click(CoarseSettings)

ReusedArray(h) == Len(h)

\* const points: VisibilityPoint[] = []  (part_004 line 389): a new array
NewArray(h) == Len(h) + 1

\* the timer fires: generateVisibilityGrid is entered and runs up to its loops
\* (part_000 lines 421-427, part_004 lines 387-402)
GridStart ==
    /\ gridRun = None
    /\ timers # <<>>
    /\ LET settings == Head(timers)
           ref == NewArray(heap)
       IN  /\ heap' = IF ref > Len(heap) THEN Append(heap, <<>>) ELSE heap
           /\ gridRun' = [settings |-> settings, points |-> ref,
                          lats |-> Lats(settings.step2, settings.maxLat),
                          lons |-> Lons(settings.step2),
                          processedPoints |-> 0]
    /\ timers' = Tail(timers)
    /\ UNCHANGED <<visibilityPoints, isCalculating, calcProgress>>

\* one pass of the inner loop, part_004 lines 406-416
GridCell ==
    /\ gridRun # None
    /\ LET nLon == Len(gridRun.lons)
           totalPoints == Len(gridRun.lats) * nLon
           k == gridRun.processedPoints + 1
       IN  /\ k <= totalPoints
           /\ LET lat == gridRun.lats[((k - 1) \div nLon) + 1]
                  lon == gridRun.lons[((k - 1) % nLon) + 1]
                  point == calculateVisibilityPoint(
                               lat, lon, gridRun.settings.criterion,
                               CellSky(gridRun.settings.pattern, lat, lon, k, totalPoints))
              IN  heap' = [heap EXCEPT ![gridRun.points] = Append(@, point.value)]
           /\ gridRun' = [gridRun EXCEPT !.processedPoints = k]
           /\ calcProgress' = IF k % 100 = 0 THEN RoundDiv(k * 100, totalPoints)
                              ELSE calcProgress
    /\ UNCHANGED <<visibilityPoints, isCalculating, timers>>

\* one pass of the outer loop, part_004 lines 405-417: the cells of one
\* latitude; the progress shown after it is the last one reported in it
GridRow ==
    /\ gridRun # None
    /\ LET nLon == Len(gridRun.lons)
           totalPoints == Len(gridRun.lats) * nLon
           done == gridRun.processedPoints
       IN  /\ done < totalPoints
           /\ LET lat == gridRun.lats[(done \div nLon) + 1]
                  row == [j \in 1..nLon |->
                             calculateVisibilityPoint(
                                 lat, gridRun.lons[j], gridRun.settings.criterion,
                                 CellSky(gridRun.settings.pattern, lat, gridRun.lons[j],
                                         done + j, totalPoints)).value]
              IN  heap' = [heap EXCEPT ![gridRun.points] = @ \o row]
           /\ gridRun' = [gridRun EXCEPT !.processedPoints = done + nLon]
           /\ calcProgress' =
                  IF (done + nLon) \div 100 > done \div 100
                  THEN RoundDiv(((done + nLon) \div 100) * 100 * 100, totalPoints)
                  ELSE calcProgress
    /\ UNCHANGED <<visibilityPoints, isCalculating, timers>>

\* the loops are over: onProgress(100), return points (part_004 lines 419-423),
\* then setVisibilityPoints(points), setIsCalculating(false) (part_000 428-429)
GridReturn ==
    /\ gridRun # None
    /\ gridRun.processedPoints = Len(gridRun.lats) * Len(gridRun.lons)
    /\ calcProgress' = 100
    /\ visibilityPoints' = gridRun.points
    /\ isCalculating' = FALSE
    /\ gridRun' = None
    /\ UNCHANGED <<heap, timers>>

(***************************************************************************)
(* Simulation modal (src/components/simulation-modal.tsx): the time       *)
(* offset, the play button, the slider and the animation effect.  The      *)
(* effect of lines 149-167 runs after a render in which isPlaying changed; *)
(* until it has run, the interval of the previous run is still live.       *)
(***************************************************************************)
\* lines 144-146, 169, and the effect's first run (isPlaying false, no interval)
ModalInit ==
    /\ timeOffset = 0
    /\ isPlaying = FALSE
    /\ playIntervalRef = "null"
    /\ effectIsPlaying = FALSE
    /\ userInputs = <<>>

ModalIdle ==
    /\ timeOffset = 0 /\ isPlaying = FALSE /\ playIntervalRef = "null"
    /\ effectIsPlaying = FALSE /\ userInputs = <<>>

\* line 1238: max={150}
SliderMax == 150

\* the values the slider can report: min 0 (the default), max, step 1
SliderValues == 0..SliderMax

\* line 1226: onClick={() => setIsPlaying(!isPlaying)}
TogglePlay ==
    /\ Len(userInputs) < MaxInputs
    /\ userInputs' = Append(userInputs, "toggle")
    /\ isPlaying' = ~isPlaying
    /\ UNCHANGED <<timeOffset, playIntervalRef, effectIsPlaying>>

\* line 1237: onValueChange={([v]) => { setTimeOffset(v); setIsPlaying(false); }}
SliderChange ==
    /\ Len(userInputs) < MaxInputs
    /\ userInputs' = Append(userInputs, "slider")
    /\ \E v \in SliderValues : timeOffset' = v
    /\ isPlaying' = FALSE
    /\ UNCHANGED <<playIntervalRef, effectIsPlaying>>

\* lines 1113-1115: useEffect(() => { setTimeOffset(0) }, [data])
DataChange ==
    /\ Len(userInputs) < MaxInputs
    /\ userInputs' = Append(userInputs, "data")
    /\ timeOffset' = 0
    /\ UNCHANGED <<isPlaying, playIntervalRef, effectIsPlaying>>

\* lines 149-167: the cleanup of the previous run clears its interval, then
\* a new interval is set when playing
AnimationEffect ==
    /\ effectIsPlaying # isPlaying
    /\ effectIsPlaying' = isPlaying
    /\ playIntervalRef' = IF isPlaying THEN "running"
                          ELSE IF playIntervalRef = "null" THEN "null"
                          ELSE "cleared"
    /\ UNCHANGED <<timeOffset, isPlaying, userInputs>>

PastEndInclusive(next) == next >= 150

\* line 154: if (next > 150)
PastEnd(next) == next > 150

\* lines 151-160: the interval callback
IntervalTick ==
    /\ playIntervalRef = "running"
    /\ LET next == timeOffset + 1
       IN  IF PastEnd(next)
           THEN isPlaying' = FALSE /\ timeOffset' = timeOffset
           ELSE timeOffset' = next /\ UNCHANGED isPlaying
    /\ UNCHANGED <<playIntervalRef, effectIsPlaying, userInputs>>

(***************************************************************************)
(* Specifications.                                                         *)
(***************************************************************************)
Init == PtInit /\ CritIdle /\ GridIdle /\ LatIdle /\ FeIdle /\ ConjIdle
    /\ ApiIdle /\ HomeIdle /\ ModalIdle

Next == CallCalculateVisibilityPoint /\ UNCHANGED <<critVars, gridVars, latVars, feVars, conjVars, apiVars, homeVars, modalVars>>

\* calculateVisibilityPoint on every argument and provider answer
Spec == Init /\ [][Next]_vars

SpecCriteriaInit == CritInit /\ PtIdle /\ GridIdle /\ LatIdle /\ FeIdle /\ ConjIdle
    /\ ApiIdle /\ HomeIdle /\ ModalIdle

SpecCriteriaNext ==
    \/ Classify /\ UNCHANGED <<ptVars, gridVars, latVars, feVars, conjVars, apiVars, homeVars, modalVars>>
    \/ ChangeArcv /\ UNCHANGED <<ptVars, gridVars, latVars, feVars, conjVars, apiVars, homeVars, modalVars>>

\* the criteria evaluators on every argument
SpecCriteria == SpecCriteriaInit /\ [][SpecCriteriaNext]_vars

SpecGridInit == GridInit /\ CritIdle /\ PtIdle /\ LatIdle /\ FeIdle /\ ConjIdle
    /\ ApiIdle /\ HomeIdle /\ ModalIdle

SpecGridNext == CallGenerateVisibilityGrid /\ UNCHANGED <<critVars, ptVars, latVars, feVars, conjVars, apiVars, homeVars, modalVars>>

\* generateVisibilityGrid on lattices and skies
SpecGrid == SpecGridInit /\ [][SpecGridNext]_vars

SpecLatticeInit == LatInit /\ CritIdle /\ PtIdle /\ GridIdle /\ FeIdle /\ ConjIdle
    /\ ApiIdle /\ HomeIdle /\ ModalIdle

SpecLatticeNext == BuildCoordinateArrays /\ UNCHANGED <<critVars, ptVars, gridVars, feVars, conjVars, apiVars, homeVars, modalVars>>

\* the coordinate loops on every step and coverage
SpecLattice == SpecLatticeInit /\ [][SpecLatticeNext]_vars

SpecFrontendInit == FeInit /\ CritIdle /\ PtIdle /\ GridIdle /\ LatIdle /\ ConjIdle
    /\ ApiIdle /\ HomeIdle /\ ModalIdle

FeFrame == UNCHANGED <<critVars, ptVars, gridVars, latVars, conjVars, apiVars, homeVars, modalVars>>

SpecFrontendNext ==
    \/ HandleGenerate /\ FeFrame
    \/ HandleCancel /\ FeFrame
    \/ FetchOk /\ FeFrame
    \/ FetchFail /\ FeFrame
    \/ FetchJson /\ FeFrame
    \/ StreamProgress /\ FeFrame
    \/ StreamResult /\ FeFrame
    \/ StreamError /\ FeFrame
    \/ StreamEnd /\ FeFrame
    \/ ReadFails /\ FeFrame

\* the frontend page: grid requests, their streams and cancellation
SpecFrontend == SpecFrontendInit /\ [][SpecFrontendNext]_vars

SpecConjInit == ConjInit /\ CritIdle /\ PtIdle /\ GridIdle /\ LatIdle /\ FeIdle
    /\ ApiIdle /\ HomeIdle /\ ModalIdle

SpecConjNext ==
    CallFindTopocentricConjunction
    /\ UNCHANGED <<critVars, ptVars, gridVars, latVars, feVars, apiVars, homeVars, modalVars>>

\* findTopocentricConjunction on every argument and provider answer
SpecConj == SpecConjInit /\ [][SpecConjNext]_vars

SpecApiInit ==
    /\ ApiInit /\ CritIdle /\ PtIdle /\ GridIdle /\ LatIdle /\ FeIdle /\ ConjIdle
    /\ HomeIdle /\ ModalIdle

ApiFrame ==
    UNCHANGED <<critVars, ptVars, gridVars, latVars, feVars, conjVars, homeVars, modalVars>>

SpecApiNext ==
    \/ CallFindSunset /\ ApiFrame
    \/ CallFindMoonset /\ ApiFrame
    \/ CallPoint /\ ApiFrame
    \/ CallGetSimulationTrajectory /\ ApiFrame
    \/ CallGetSimulationTrajectoryEarlier /\ ApiFrame
    \/ CallGetEnhancedSimulationTrajectory /\ ApiFrame
    \/ CallFindGeocentricConjunction /\ ApiFrame
    \/ CallTopocentric /\ ApiFrame
    \/ CallGetConjunctionComparison /\ ApiFrame
    \/ CallGetNextNewMoon /\ ApiFrame
    \/ CallSaaoCriterion /\ ApiFrame
    \/ CallShaukatCriterion /\ ApiFrame
    \/ CallCalcCrescentWidth /\ ApiFrame
    \/ CallGridWithProgress /\ ApiFrame

\* one call of an exported function on every argument and provider answer
SpecApi == SpecApiInit /\ [][SpecApiNext]_vars

SpecHomeInit ==
    /\ HomeInit /\ CritIdle /\ PtIdle /\ GridIdle /\ LatIdle /\ FeIdle /\ ConjIdle
    /\ ApiIdle /\ ModalIdle

HomeFrame ==
    UNCHANGED <<critVars, ptVars, gridVars, latVars, feVars, conjVars, apiVars,
                modalVars>>

SpecHomeNext ==
    \/ HandleCalculate /\ HomeFrame
    \/ GridStart /\ HomeFrame
    \/ GridCell /\ HomeFrame
    \/ GridReturn /\ HomeFrame

\* the in-browser page: Calculate clicks and the grid runs they start
SpecHome == SpecHomeInit /\ [][SpecHomeNext]_vars

SpecStreamInit ==
    /\ StreamInit
    /\ CritIdle /\ PtIdle /\ GridIdle /\ LatIdle /\ FeIdle /\ ConjIdle /\ HomeIdle /\ ModalIdle

SpecStreamNext == CallFetchVisibility /\ ApiFrame

SpecStream == SpecStreamInit /\ [][SpecStreamNext]_vars

SpecModalInit ==
    /\ ModalInit /\ CritIdle /\ PtIdle /\ GridIdle /\ LatIdle /\ FeIdle /\ ConjIdle
    /\ ApiIdle /\ HomeIdle

ModalFrame ==
    UNCHANGED <<critVars, ptVars, gridVars, latVars, feVars, conjVars, apiVars,
                homeVars>>

SpecModalNext ==
    \/ TogglePlay /\ ModalFrame
    \/ SliderChange /\ ModalFrame
    \/ DataChange /\ ModalFrame
    \/ AnimationEffect /\ ModalFrame
    \/ IntervalTick /\ ModalFrame

\* the simulation modal: playback, slider and data changes
SpecModal == SpecModalInit /\ [][SpecModalNext]_vars

\* the browser runs a pending effect and fires a running interval: React
\* flushes the effects of a committed render, and setInterval keeps firing
\* every 100 ms until it is cleared
SpecModalFair ==
    /\ SpecModal
    /\ WF_vars(AnimationEffect /\ ModalFrame)
    /\ WF_vars(IntervalTick /\ ModalFrame)

SpecCalculateNext ==
    \/ FirstCalculate /\ HomeFrame
    \/ GridStart /\ HomeFrame
    \/ GridRow /\ HomeFrame
    \/ GridReturn /\ HomeFrame

\* the in-browser page: the first run under a selectable setting, followed
\* latitude by latitude
SpecCalculate == SpecHomeInit /\ [][SpecCalculateNext]_vars

\* what GridStart does to the timer queue
TimerFires ==
    /\ gridRun = None
    /\ timers # <<>>
    /\ timers' = Tail(timers)

\* what GridRow and GridReturn do to the activation of generateVisibilityGrid
CallbackAdvances ==
    /\ gridRun # None
    /\ IF gridRun.processedPoints < Len(gridRun.lats) * Len(gridRun.lons)
       THEN gridRun' = [gridRun EXCEPT !.processedPoints = @ + Len(gridRun.lons)]
       ELSE gridRun' = None

\* the pending timer fires (setTimeout(..., 50)), and the timer callback,
\* once entered, runs to its end: it is synchronous code.  The conditions
\* are stated on the timer queue and on the activation, which GridStart,
\* GridRow and GridReturn are the only steps to change.
SpecCalculateFair ==
    /\ SpecCalculate
    /\ WF_timers(TimerFires)
    /\ WF_gridRun(CallbackAdvances)

(***************************************************************************)
(* Properties.                                                             *)
(***************************************************************************)

\* C1: when the provider reports a moon altitude below 0 at sunset,
\* calculateVisibilityPoint returns colour red, Odeh zone D and Yallop class F
\* under every criterion and for every ARCV, width and elongation.
C1_MoonBelowHorizonIsWorst ==
    (/\ ptOut # None
     /\ ptIn.sky.fault = "none"
     /\ ptIn.sky.sunset
     /\ ptIn.sky.moonAlt < 0)
    => /\ ptOut.kind = "return"
       /\ ptOut.value.color = "red"
       /\ ptOut.value.odehZone = "D"
       /\ ptOut.value.yallopClass = "F"

\* a moon just below the horizon with the sun far below it: ARCV = 11 degrees and
\* a wide crescent, which the ladders alone would rate favourably
C1_Witness ==
    /\ ptOut # None
    /\ ptIn.criterion = "yallop"
    /\ ptIn.sky.fault = "none" /\ ptIn.sky.sunset
    /\ ptIn.sky.moonAlt = -1 /\ ptIn.sky.sunAlt = -12
    /\ ptIn.sky.elongation = 30
    /\ ptOut.value.color = "red"
    /\ yallopCriterion(30, 110000000,
          calcCrescentWidth(30, -1, ptIn.sky.distKm)).cls = "A"

YallopRank(cls) ==
    CASE cls = "A" -> 1 [] cls = "B" -> 2 [] cls = "C" -> 3
      [] cls = "D" -> 4 [] cls = "E" -> 5 [] cls = "F" -> 6

\* C6: q = (ARCV - (11.8371 - 6.3226W + 0.7319W^2 - 0.1018W^3)) / 10; class A if
\* q > 0.216, else B if q > -0.014, else C if q > -0.160, else D if q > -0.232,
\* else E if q > -0.293, else F; q equal to a threshold falls in the less
\* favourable class; colour green for A and B, yellow C, orange D, red E and F.
C6_YallopLadder ==
    critOut # None =>
        LET W == critIn.w
            q == critIn.arcv
                 - (118371000 - 6322600 * W + 73190 * W^2 - 1018 * W^3)
            y == critOut.yallop
        IN  /\ y.q = q
            /\ (y.cls = "A") = (q > 21600000)
            /\ (y.cls = "B") = (q <= 21600000 /\ q > -1400000)
            /\ (y.cls = "C") = (q <= -1400000 /\ q > -16000000)
            /\ (y.cls = "D") = (q <= -16000000 /\ q > -23200000)
            /\ (y.cls = "E") = (q <= -23200000 /\ q > -29300000)
            /\ (y.cls = "F") = (q <= -29300000)
            /\ (q = 21600000 => y.cls = "B")
            /\ (q = -1400000 => y.cls = "C")
            /\ (q = -16000000 => y.cls = "D")
            /\ (q = -23200000 => y.cls = "E")
            /\ (q = -29300000 => y.cls = "F")
            /\ (y.cls \in {"A", "B"} => critOut.yallopColor = "green")
            /\ (y.cls = "C" => critOut.yallopColor = "yellow")
            /\ (y.cls = "D" => critOut.yallopColor = "orange")
            /\ (y.cls \in {"E", "F"} => critOut.yallopColor = "red")

\* q exactly -0.014 has been classified, as C and yellow
C6_Witness ==
    /\ critOut # None
    /\ critOut.yallop.q = -1400000
    /\ critOut.yallop.cls = "C"
    /\ critOut.yallopColor = "yellow"

\* C7: V = ARCV - (-0.1018W^3 + 0.7319W^2 - 6.3226W + 7.1651); zone A if
\* V >= 5.65, else B if V >= 2.0, else C if V >= -0.96, else D; V equal to a
\* threshold resolves to the more favourable zone; colours green, yellow,
\* orange, red for A, B, C, D.
C7_OdehLadder ==
    critOut # None =>
        LET W == critIn.w
            v == critIn.arcv
                 - (71651000 - 6322600 * W + 73190 * W^2 - 1018 * W^3)
            o == critOut.odeh
        IN  /\ o.v = v
            /\ (o.zone = "A") = (v >= 56500000)
            /\ (o.zone = "B") = (v < 56500000 /\ v >= 20000000)
            /\ (o.zone = "C") = (v < 20000000 /\ v >= -9600000)
            /\ (o.zone = "D") = (v < -9600000)
            /\ (v = 56500000 => o.zone = "A")
            /\ (v = 20000000 => o.zone = "B")
            /\ (v = -9600000 => o.zone = "C")
            /\ (o.zone = "A" => critOut.odehColor = "green")
            /\ (o.zone = "B" => critOut.odehColor = "yellow")
            /\ (o.zone = "C" => critOut.odehColor = "orange")
            /\ (o.zone = "D" => critOut.odehColor = "red")

\* V exactly 2.0 has been classified, as B and yellow
C7_Witness ==
    /\ critOut # None
    /\ critOut.odeh.v = 20000000
    /\ critOut.odeh.zone = "B"
    /\ critOut.odehColor = "yellow"

\* C8: for a fixed width, an evaluation at an ARCV no higher than an earlier
\* one yields a Yallop class that is the same or less favourable.
C8_YallopMonotone ==
    (/\ critPrev # None
     /\ critOut # None
     /\ critPrev.in.w = critIn.w
     /\ critPrev.in.arcv >= critIn.arcv)
    => YallopRank(critPrev.out.yallop.cls) <= YallopRank(critOut.yallop.cls)

\* two evaluations at the same width, the later at a lower ARCV and in a
\* strictly worse class
C8_Witness ==
    /\ critPrev # None
    /\ critOut # None
    /\ critPrev.in.w = critIn.w
    /\ critPrev.in.arcv > critIn.arcv
    /\ critPrev.out.yallop.cls = "B"
    /\ critOut.yallop.cls = "E"

\* the lattice of a run, counted from its definition rather than by the loops
LatticeLats(step2, maxLat) ==
    {x \in (0 - 2 * maxLat)..(2 * maxLat) : (x + 2 * maxLat) % step2 = 0}

LatticeLons(step2) == {x \in -360..359 : (x + 360) % step2 = 0}

\* C3: a cell whose computation throws yields a red point at its own lat/lon,
\* the exception does not leave generateVisibilityGrid, and the returned grid
\* has a point for every cell.
C3_CellFaultIsolated ==
    gridOut # None =>
        LET nLon == Cardinality(LatticeLons(gridIn.step2))
            total == Cardinality(LatticeLats(gridIn.step2, gridIn.maxLat)) * nLon
        IN  /\ gridOut.kind = "return"
            /\ Len(gridOut.value) = total
            /\ \A k \in 1..total :
                  CellFaults(gridIn.pattern, k, total) =>
                      gridOut.value[k] =
                          [lat |-> (0 - 2 * gridIn.maxLat)
                                   + ((k - 1) \div nLon) * gridIn.step2,
                           lon |-> -360 + ((k - 1) % nLon) * gridIn.step2,
                           color |-> "red"]

\* the second cell threw inside getMoonSunData; the run returned, that cell is
\* red and the cell after it was still classified
C3_Witness ==
    /\ gridOut # None
    /\ gridIn.pattern.faultAt = "second"
    /\ gridIn.pattern.faultIn = "data"
    /\ gridOut.kind = "return"
    /\ gridOut.value[2].color = "red"
    /\ "odehZone" \notin DOMAIN gridOut.value[2]
    /\ "odehZone" \in DOMAIN gridOut.value[3]
    /\ gridOut.value[3].color # "red"

\* C4: one point per lattice cell, latitude-major ascending; the length is
\* (number of latitudes) x (number of longitudes), 61 x 180 = 10980 for
\* stepDeg = 2 and maxLat = 60; every point has -maxLat <= lat <= maxLat and
\* -180 <= lon < 180.
C4_OnePointPerCellInOrder ==
    (gridOut # None /\ gridOut.kind = "return") =>
        LET pts == gridOut.value
            latSet == LatticeLats(gridIn.step2, gridIn.maxLat)
            lonSet == LatticeLons(gridIn.step2)
        IN  /\ Len(pts) = Cardinality(latSet) * Cardinality(lonSet)
            /\ {<<pts[k].lat, pts[k].lon>> : k \in 1..Len(pts)} = latSet \X lonSet
            /\ \A k \in 1..(Len(pts) - 1) :
                  \/ pts[k].lat < pts[k + 1].lat
                  \/ pts[k].lat = pts[k + 1].lat /\ pts[k].lon < pts[k + 1].lon
            /\ \A k \in 1..Len(pts) :
                  /\ (0 - 2 * gridIn.maxLat) <= pts[k].lat
                  /\ pts[k].lat <= 2 * gridIn.maxLat
                  /\ -360 <= pts[k].lon
                  /\ pts[k].lon < 360
            /\ (gridIn.step2 = 4 /\ gridIn.maxLat = 60) =>
                  /\ Cardinality(latSet) = 61
                  /\ Cardinality(lonSet) = 180
                  /\ Len(pts) = 10980

\* the run with stepDeg = 2 and maxLat = 60 has returned its 10980 points
C4_Witness ==
    /\ gridOut # None
    /\ gridIn.step2 = 4
    /\ gridIn.maxLat = 60
    /\ gridOut.kind = "return"
    /\ Len(gridOut.value) = 10980
    /\ gridOut.value[1].lat = -120 /\ gridOut.value[1].lon = -360
    /\ gridOut.value[10980].lat = 120 /\ gridOut.value[10980].lon = 356

\* C5: for stepDeg in {0.5, 1, 2, 3, 4} and maxLat in {60, 70, 80} the lattice
\* has a row at -maxLat and a row at +maxLat, and a column at -180 but none
\* at +180.
C5_LatticeEnds ==
    (/\ latOut # None
     /\ latIn.step2 \in {1, 2, 4, 6, 8}
     /\ latIn.maxLat \in {60, 70, 80})
    => /\ \E i \in 1..Len(latOut.lats) : latOut.lats[i] = 0 - 2 * latIn.maxLat
       /\ \E i \in 1..Len(latOut.lats) : latOut.lats[i] = 2 * latIn.maxLat
       /\ \E i \in 1..Len(latOut.lons) : latOut.lons[i] = -360
       /\ \A i \in 1..Len(latOut.lons) : latOut.lons[i] # 360

\* C2: a run cancelled mid-way yields no result: from the moment its controller
\* is aborted no step of the run changes the displayed points, and the
\* displayed points are only ever empty or a complete list the backend sent,
\* stored by a run that was not aborted.
C2_CancelledRunYieldsNoResult ==
    /\ [](points = <<>> \/ \E res \in ServerResponses : points = res.points)
    /\ [][/\ \A r \in 1..Len(runs) :
               (runs[r].aborted /\ runs'[r] # runs[r]) => points' = points
          /\ points' # points =>
               \E r \in 1..Len(runs) :
                   /\ ~runs[r].aborted
                   /\ runs[r].phase # "settled"
                   /\ runs'[r].phase = "settled"
                   /\ runs'[r].result # None
                   /\ points' = runs'[r].result.points]_vars

\* the second run was cancelled while streaming, its stream then delivered a
\* complete result, and the points of the first run are still displayed
C2_Witness ==
    /\ Len(runs) = 2
    /\ runs[1].phase = "settled" /\ ~runs[1].aborted /\ runs[1].result # None
    /\ runs[2].phase = "settled" /\ runs[2].aborted /\ runs[2].result # None
    /\ runs[2].lines > 0
    /\ runs[2].result # runs[1].result
    /\ points = runs[1].result.points
    /\ status = "Cancelled"

\* the instant SearchMoonPhase answered for the call in conjIn
GeoInstant ==
    conjIn.startDate + (conjIn.sky.geo.frac * conjIn.limitDays * 24) \div 4

\* every record the call returns, for the same arguments and geocentric
\* answer, when the root search does find a root
GenuineResults ==
    {findTopocentricConjunction(conjIn.lat, conjIn.lon, conjIn.startDate,
                                conjIn.limitDays,
                                [geo |-> conjIn.sky.geo, search |-> sa]) :
        sa \in {x \in SearchAnswers : x.kind = "root"}}

\* C9: when the root search finds no root, the call returns the geocentric
\* instant and the result is flagged as a fallback: a caller can tell it from
\* every result of a search that found a root.
C9_FallbackIsFlagged ==
    (/\ conjOut # None
     /\ conjIn.sky.geo.kind = "time"
     /\ conjIn.sky.search.kind = "null")
    => /\ conjOut.kind = "result"
       /\ conjOut.time = GeoInstant
       /\ conjOut \notin GenuineResults

\* C10: every non-null result lies within 12 hours of the geocentric
\* conjunction found from the same start date and limit.
C10_WithinTwelveHours ==
    (conjOut # None /\ conjOut # Null) =>
        /\ conjIn.sky.geo.kind = "time"
        /\ GeoInstant - 12 <= conjOut.time
        /\ conjOut.time <= GeoInstant + 12
        /\ (conjIn.sky.search.kind = "null" => conjOut.time = GeoInstant)

\* a root found at the very end of the window, 12 hours after the geocentric
\* instant, has been returned
C10_Witness ==
    /\ conjOut # None /\ conjOut # Null
    /\ conjIn.sky.search.kind = "root"
    /\ conjIn.sky.search.frac = 4
    /\ conjIn.limitDays = -30
    /\ conjOut.time = GeoInstant + 12

\* C11: a missing event is a value, never an exception.  When the provider
\* finds no sunset, findSunset returns null, calculateVisibilityPoint returns
\* the red point of the cell and getSimulationTrajectory returns null; when it
\* finds no geocentric conjunction, findGeocentricConjunction,
\* findTopocentricConjunction, getConjunctionComparison and getNextNewMoon
\* return null.
C11_MissingEventIsAValue ==
    apiOut # None =>
        /\ (apiIn.fn = "findSunset" /\ apiIn.sky.sunset.kind = "null")
               => apiOut = Return(Null)
        /\ (apiIn.fn = "calculateVisibilityPoint" /\ apiIn.sky.fault = "none"
            /\ ~apiIn.sky.sunset)
               => apiOut = Return([lat |-> apiIn.at.lat, lon |-> apiIn.at.lon,
                                   color |-> "red"])
        /\ (apiIn.fn \in {"getSimulationTrajectory", "getSimulationTrajectoryEarlier",
                          "getEnhancedSimulationTrajectory"}
            /\ apiIn.sky.sunset.kind = "null")
               => apiOut = Return(Null)
        /\ (apiIn.fn \in {"findGeocentricConjunction", "findTopocentricConjunction",
                          "getConjunctionComparison", "getNextNewMoon"}
            /\ apiIn.sky.geo.kind = "null")
               => apiOut = Return(Null)

\* getNextNewMoon was asked for the topocentric new moon of an observer, no
\* geocentric conjunction lay in the window, and it returned null although the
\* root search would have found a root
C11_Witness ==
    /\ apiOut # None
    /\ apiIn.fn = "getNextNewMoon"
    /\ apiIn.conjunctionType = "topocentric"
    /\ apiIn.observer # Null
    /\ apiIn.sky.geo.kind = "null"
    /\ apiIn.sky.search.kind = "root"
    /\ apiOut = Return(Null)

\* C12: the frames of getSimulationTrajectory and getEnhancedSimulationTrajectory
\* start at offset 0, consecutive frames differ by exactly 2 minutes, and the
\* last frame's offset equals the configured duration: 150 minutes, 75 minutes
\* in the earlier variant of getSimulationTrajectory.
C12_FramesSpanDuration ==
    (/\ apiOut # None
     /\ apiIn.fn \in {"getSimulationTrajectory", "getSimulationTrajectoryEarlier",
                      "getEnhancedSimulationTrajectory"}
     /\ apiOut.value # Null)
    => LET tr == apiOut.value.trajectory
           duration == IF apiIn.fn = "getSimulationTrajectoryEarlier" THEN 75 ELSE 150
       IN  /\ Len(tr) >= 1
           /\ tr[1].timeOffsetMin = 0
           /\ \A k \in 1..(Len(tr) - 1) :
                 tr[k + 1].timeOffsetMin = tr[k].timeOffsetMin + 2
           /\ tr[Len(tr)].timeOffsetMin = duration

\* the instant, in minutes, of the sunset of the call in apiIn
SunsetMinutes ==
    60 * (LocalNoonUTC(apiIn.at.lon, apiIn.day)
          + (apiIn.sky.sunset.frac * SearchLimitDays * 24) \div 4)

\* the instant, in minutes, SearchMoonPhase answers for the 30 days before the
\* sunset of the call in apiIn
RecentGeoMinutes ==
    SunsetMinutes + 60 * ((apiIn.sky.geo.frac * (0 - 30) * 24) \div 4)

\* C13: within one run of getEnhancedSimulationTrajectory every frame's
\* moonAge is the time elapsed from the one geocentric conjunction to the
\* frame's instant: frame 0's moonAge equals moonAgeHoursGeo, consecutive
\* frames' moonAge differ by exactly 2 minutes, and whatever the topocentric
\* search answers, the frames are the same.
C13_MoonAgeFromOneGeocentricInstant ==
    (/\ apiOut # None
     /\ apiIn.fn = "getEnhancedSimulationTrajectory"
     /\ apiOut.value # Null)
    => LET tr == apiOut.value.trajectory
       IN  /\ tr[1].moonAge = apiOut.value.moonAgeHoursGeo
           /\ \A k \in 1..Len(tr) :
                 tr[k].moonAge = SunsetMinutes + tr[k].timeOffsetMin
                                 - RecentGeoMinutes
           /\ \A k \in 1..(Len(tr) - 1) : tr[k + 1].moonAge = tr[k].moonAge + 2
           /\ \A sa \in SearchAnswers :
                 LET other == getEnhancedSimulationTrajectory(
                                  apiIn.at.lat, apiIn.at.lon, apiIn.day,
                                  [apiIn.sky EXCEPT !.search = sa])
                 IN  other # Null /\ other.trajectory = tr

\* a run whose topocentric conjunction lies 12 hours after the geocentric one:
\* moonAgeHoursTopo is 720 minutes less than moonAgeHoursGeo, and the frames
\* count from the geocentric instant
C13_Witness ==
    /\ apiOut # None
    /\ apiIn.fn = "getEnhancedSimulationTrajectory"
    /\ apiOut.value # Null
    /\ apiIn.sky.search.kind = "root" /\ apiIn.sky.search.frac = 4
    /\ apiIn.sky.geo.frac = 1
    /\ apiOut.value.moonAgeHoursGeo = 180 * 60
    /\ apiOut.value.moonAgeHoursTopo = Some(168 * 60)
    /\ apiOut.value.trajectory[1].moonAge = 180 * 60
    /\ apiOut.value.trajectory[76].moonAge = 180 * 60 + 150

\* C14: during generateVisibilityGrid with an onProgress callback, the callback
\* is invoked after every 100th processed cell with the rounded percentage of
\* cells processed so far; the reported values never decrease and stay within
\* 0..100; the last invocation, made after all cells are processed, reports 100.
C14_ProgressCadence ==
    (apiOut # None /\ apiIn.fn = "generateVisibilityGrid") =>
        LET calls == apiOut.onProgress
            total == Len(apiOut.value)
            n == Len(calls)
        IN  /\ apiOut.kind = "return"
            /\ n = (total \div 100) + 1
            /\ \A j \in 1..(n - 1) :
                  /\ calls[j].processedPoints = 100 * j
                  /\ (2 * calls[j].progress - 1) * total <= 200 * calls[j].processedPoints
                  /\ 200 * calls[j].processedPoints < (2 * calls[j].progress + 1) * total
            /\ \A j \in 1..n : calls[j].progress \in 0..100
            /\ \A j \in 1..(n - 1) : calls[j].progress <= calls[j + 1].progress
            /\ calls[n].processedPoints = total
            /\ calls[n].progress = 100

\* a run of 800 cells: 12.5 percent is reported as 13 after the first 100 cells,
\* 100 after the last cell and 100 again by the final call
C14_Witness ==
    /\ apiOut # None
    /\ apiIn.fn = "generateVisibilityGrid"
    /\ Len(apiOut.value) = 800
    /\ Len(apiOut.onProgress) = 9
    /\ apiOut.onProgress[1] = [processedPoints |-> 100, progress |-> 13]
    /\ apiOut.onProgress[8] = [processedPoints |-> 800, progress |-> 100]
    /\ apiOut.onProgress[9] = [processedPoints |-> 800, progress |-> 100]

\* C15: with ARCV = 7 degrees and crescent width = 0.3 arcminutes the Odeh
\* evaluator classifies the geometry as zone B or better (zone A or B, colour
\* green or yellow).
C15_OdehExampleIsBOrBetter ==
    (critOut # None /\ critIn.w = 3 /\ critIn.arcv = 70000000)
    => /\ critOut.odeh.zone \in {"A", "B"}
       /\ critOut.odehColor \in {"green", "yellow"}

\* C15, as the code has it: with ARCV = 7 degrees and crescent width = 0.3
\* arcminutes the Odeh evaluator computes V = 1.6685576, below the zone B
\* threshold 2.0, and classifies the geometry as zone C, colour orange.
C15_OdehExampleIsZoneC ==
    (critOut # None /\ critIn.w = 3 /\ critIn.arcv = 70000000)
    => /\ critOut.odeh.v = 16685576
       /\ critOut.odeh.zone = "C"
       /\ critOut.odehColor = "orange"

\* the example geometry has been classified
C15_Witness ==
    /\ critOut # None
    /\ critIn.w = 3
    /\ critIn.arcv = 70000000
    /\ critOut.odeh.zone = "C"
    /\ critOut.odeh.v < 20000000
    /\ critOut.odeh.v >= -9600000

\* C16: the displayed list is at every moment either the complete result of a
\* grid run or the list shown before it (initially empty): a run builds a
\* fresh list, no step changes a list other than the one the run in progress
\* is building, and the displayed list is replaced in one step, by the list of
\* a run that has produced all its points.
C16_DisplayedListIsWholeRun ==
    /\ [](\/ visibilityPoints = 1 /\ heap[1] = <<>>
          \/ \E settings \in HomeSettings :
                heap[visibilityPoints] =
                    generateVisibilityGrid(settings.step2, settings.maxLat,
                                           settings.criterion, settings.pattern).value)
    /\ [][/\ (gridRun = None /\ gridRun' # None) =>
                 /\ gridRun'.points = Len(heap) + 1
                 /\ heap'[gridRun'.points] = <<>>
          /\ \A ref \in 1..Len(heap) :
                 heap'[ref] # heap[ref] => (gridRun # None /\ ref = gridRun.points)
          /\ visibilityPoints' # visibilityPoints =>
                 /\ gridRun # None
                 /\ gridRun' = None
                 /\ visibilityPoints' = gridRun.points
                 /\ heap'[visibilityPoints'] =
                        generateVisibilityGrid(gridRun.settings.step2,
                                               gridRun.settings.maxLat,
                                               gridRun.settings.criterion,
                                               gridRun.settings.pattern).value]_vars

\* a second run is half-way through its cells while the complete list of the
\* first run is still displayed
C16_Witness ==
    /\ gridRun # None
    /\ gridRun.points = 3
    /\ gridRun.processedPoints = 3
    /\ Len(heap[3]) = 3
    /\ visibilityPoints = 2
    /\ Len(heap[2]) = 8
    /\ isCalculating

ZoneRank(zone) ==
    CASE zone = "A" -> 1 [] zone = "B" -> 2 [] zone = "C" -> 3 [] zone = "D" -> 4

C19_SaaoLadder ==
    (apiOut # None /\ apiIn.fn = "saaoCriterion") =>
        LET a == apiIn.moonAlt
            g == apiIn.moonAge
            isA == a >= 10 /\ g >= 24
            isB == ~isA /\ a >= 6 /\ g >= 18
            isC == ~isA /\ ~isB /\ a >= 3 /\ g >= 15
            out == apiOut.value
        IN  /\ (out = [zone |-> "A", color |-> "green"]) = isA
            /\ (out = [zone |-> "B", color |-> "yellow"]) = isB
            /\ (out = [zone |-> "C", color |-> "orange"]) = isC
            /\ (out = [zone |-> "D", color |-> "red"]) = (~isA /\ ~isB /\ ~isC)
            /\ \A z \in {"A", "B", "C", "D"} :
                  \E a2 \in 0..12 : \E g2 \in 12..26 :
                      saaoCriterion(a2, g2).zone = z
            /\ \A a2 \in -2..a : \A g2 \in 0..g :
                  ZoneRank(saaoCriterion(a2, g2).zone) >= ZoneRank(out.zone)

\* the moon 11 degrees up but only 23 hours old: B/yellow, not A
C19_Witness ==
    /\ apiOut # None
    /\ apiIn.fn = "saaoCriterion"
    /\ apiIn.moonAlt = 11
    /\ apiIn.moonAge = 23
    /\ apiOut.value = [zone |-> "B", color |-> "yellow"]

\* C20: calcCrescentWidth returns a width >= 0 for every elongation in
\* [0, 180], every moon altitude in [-90, 90] and every positive distance, and
\* exactly 0 when the elongation is 0.
C20_WidthNonNegative ==
    (apiOut # None /\ apiIn.fn = "calcCrescentWidth") =>
        /\ apiOut.value >= 0
        /\ (apiIn.arclDeg = 0 => apiOut.value = 0)

\* the moon at the nadir and nearer than one Earth radius (the parallax sine
\* clamped to 1), at elongation 180: the width is 0, not negative; and the
\* same moon at the zenith has a positive width
C20_Witness ==
    /\ apiOut # None
    /\ apiIn.fn = "calcCrescentWidth"
    /\ apiIn.arclDeg = 180
    /\ apiIn.moonAltDeg = -90
    /\ apiIn.distKm = 3000
    /\ apiOut.value = 0
    /\ calcCrescentWidth(180, 90, 3000) > 0

\* C21: findSunset starts its search at (12 - round(lon / 15)) hours UTC of the
\* requested date, for every longitude in [-180, 180], and any sunset it
\* returns lies within the 24 hours after that start; any moonset findMoonset
\* returns lies within the 24 hours after the instant it is given.
C21_SearchWithinOneDay ==
    (apiOut # None /\ apiIn.fn \in {"findSunset", "findMoonset"}
     /\ apiOut.kind = "return" /\ apiOut.value # Null)
    => IF apiIn.fn = "findSunset"
       THEN \E r \in -12..12 :
               /\ 30 * r - 15 <= apiIn.at.lon
               /\ apiIn.at.lon < 30 * r + 15
               /\ LET start == 24 * apiIn.day + (12 - r)
                  IN  /\ start <= apiOut.value.t
                      /\ apiOut.value.t <= start + 24
                      /\ apiOut.value.t = start + 6 * apiIn.sky.sunset.frac
       ELSE /\ apiIn.startTime <= apiOut.value.t
            /\ apiOut.value.t <= apiIn.startTime + 24

\* at longitude -172.5 (round(-11.5) = -11) the search of day 0 starts at
\* 23:00 UTC and the sunset found at the very end of the window is returned
C21_Witness ==
    /\ apiOut # None
    /\ apiIn.fn = "findSunset"
    /\ apiIn.at.lon = -345 /\ apiIn.day = 0
    /\ apiIn.sky.sunset = [kind |-> "time", frac |-> 4]
    /\ apiOut = Return([kind |-> "time", t |-> 47])

\* C22: in the result of getEnhancedSimulationTrajectory the moon age at sunset
\* is never negative: moonAgeHoursGeo >= 0 and, when a topocentric conjunction
\* is returned, moonAgeHoursTopo >= 0.
C22_MoonAgeNeverNegative ==
    (/\ apiOut # None
     /\ apiIn.fn = "getEnhancedSimulationTrajectory"
     /\ apiOut.value # Null)
    => /\ apiOut.value.moonAgeHoursGeo >= 0
       /\ apiOut.value.moonAgeHoursTopo # Null
             => apiOut.value.moonAgeHoursTopo.v >= 0

\* C23: once a grid request has been cancelled by handleCancel or superseded
\* by a newer handleGenerate, nothing that later happens to it (a progress
\* chunk, its completion, or the failure of its fetch) changes points,
\* progress, status or isLoading.
C23_StaleRunChangesNothing ==
    [][\A r \in 1..Len(runs) :
          (runs[r].aborted /\ runs'[r] # runs[r])
              => UNCHANGED <<points, progress, status, isLoading>>]_vars

\* C24: when the stream delivers a line whose JSON has an error field,
\* fetchVisibility rejects with an Error carrying that message instead of
\* continuing to read the stream.
C24_ErrorLineRejects ==
    \A r \in 1..Len(runs) :
        runs[r].errorLine # None
            => /\ runs[r].phase = "settled"
               /\ runs[r].rejection = Error(runs[r].errorLine.error)

\* C25: the outcome of fetchVisibility does not depend on how the response is
\* divided into read() chunks: every split of a stream, splits in the middle
\* of a line included, yields the onProgress calls and the result or
\* rejection that the same stream yields when delivered in one piece and
\* when delivered one character at a time.
C25_ChunkingIsInvisible ==
    (apiOut # None /\ apiIn.fn = "fetchVisibility")
    => LET bytes == Flatten(apiIn.chunks)
           whole == IF bytes = <<>> THEN <<>> ELSE <<bytes>>
           single == [i \in 1..Len(bytes) |-> <<bytes[i]>>]
       IN  /\ apiOut = ReadStream(whole)
           /\ apiOut = ReadStream(single)

\* the line "pr" arrives cut between its two members; the progress call is
\* made once and the result is returned
C25_Witness ==
    /\ apiOut # None
    /\ apiIn.fn = "fetchVisibility"
    /\ apiIn.chunks = <<<<"p">>, <<"r", LF>>>>
    /\ apiOut = [onProgress |-> <<[progress |-> 50, status |-> ""]>>,
                 settled |-> Return(StreamResult1)]

\* C26: for the same ARCV and crescent width the two evaluators never
\* contradict each other at the extremes: whenever odehCriterion returns zone
\* D, yallopCriterion returns class F, and whenever yallopCriterion returns
\* class A, odehCriterion returns zone A.
C26_ExtremesAgree ==
    critOut # None
    => /\ critOut.odeh.zone = "D" => critOut.yallop.cls = "F"
       /\ critOut.yallop.cls = "A" => critOut.odeh.zone = "A"

\* the highest ARCV of zone D at the largest width, one step below the Odeh
\* threshold V = -0.96, is class F
C26_Witness ==
    /\ critOut # None
    /\ critIn.w = MaxW10
    /\ critIn.arcv = OdehCurve7(critIn.w) - 9600001
    /\ critOut.odeh.zone = "D"
    /\ critOut.yallop.cls = "F"

\* C27: every point returned by calculateVisibilityPoint that carries zone
\* fields has a colour consistent with them: with criterion 'odeh' or an
\* unrecognised criterion the colour equals zoneToColor(odehZone), with
\* criterion 'yallop' it equals yallopClassToColor(yallopClass); every point
\* without zone fields (no sunset, or a caught fault) is red.
C27_ColourMatchesZoneFields ==
    ptOut # None
    => /\ ptOut.kind = "return"
       /\ LET p == ptOut.value
          IN  IF "odehZone" \in DOMAIN p
              THEN /\ "yallopClass" \in DOMAIN p
                   /\ ptIn.criterion \notin {"yallop", "saao", "shaukat"}
                         => p.color = zoneToColor(p.odehZone)
                   /\ ptIn.criterion = "yallop"
                         => p.color = yallopClassToColor(p.yallopClass)
              ELSE p.color = "red"

\* an unrecognised criterion, the moon up at sunset and a zone other than D:
\* the point is coloured by its Odeh zone
C27_Witness ==
    /\ ptOut # None
    /\ ptIn.criterion = "danjon"
    /\ ptIn.sky.fault = "none" /\ ptIn.sky.sunset /\ ptIn.sky.moonAlt >= 0
    /\ ptOut.value.odehZone = "A"
    /\ ptOut.value.yallopClass # "A"
    /\ ptOut.value.color = "green"

\* C28: under criterion 'saao' calculateVisibilityPoint evaluates the SAAO
\* ladder with the constant moon age of 20 hours, so it never returns green,
\* and its colour is a function of the moon altitude at sunset alone: yellow
\* if the altitude is at least 6, orange if it is at least 3 and below 6, red
\* otherwise.
C28_SaaoColourByAltitudeAlone ==
    (ptOut # None /\ ptIn.criterion = "saao")
    => /\ ptOut.kind = "return"
       /\ ptOut.value.color # "green"
       /\ LET hasAltitude == ptIn.sky.fault = "none" /\ ptIn.sky.sunset
              altitude == ptIn.sky.moonAlt
          IN  ptOut.value.color =
                 IF hasAltitude /\ altitude >= 6 THEN "yellow"
                 ELSE IF hasAltitude /\ altitude >= 3 THEN "orange"
                 ELSE "red"

\* the moon 15 degrees up at sunset, high enough for the green rung of the
\* SAAO ladder at an age of 24 hours: the point is yellow
C28_Witness ==
    /\ ptOut # None
    /\ ptIn.criterion = "saao"
    /\ ptIn.sky.fault = "none" /\ ptIn.sky.sunset /\ ptIn.sky.moonAlt = 15
    /\ ptOut.value.color = "yellow"

\* C29: in the simulation modal the time offset stays within 0..150 whatever
\* the play/pause toggles, playback ticks, slider moves and data changes; a
\* slider move pauses playback and a data change resets the offset to 0;
\* while playing with no further user input the offset advances by 1 per
\* tick, eventually reaches 150, and playback then stops by itself with the
\* offset left at 150.
C29_PlaybackRunsToTheEnd ==
    /\ [](timeOffset \in 0..150)
    /\ [][/\ (userInputs' # userInputs /\ userInputs'[Len(userInputs')] = "slider")
                => ~isPlaying'
          /\ (userInputs' # userInputs /\ userInputs'[Len(userInputs')] = "data")
                => timeOffset' = 0
          /\ (userInputs' = userInputs /\ timeOffset' # timeOffset)
                => timeOffset' = timeOffset + 1 /\ UNCHANGED isPlaying
          /\ (userInputs' = userInputs /\ isPlaying' # isPlaying)
                => timeOffset = 150 /\ timeOffset' = 150 /\ ~isPlaying'
         ]_vars
    /\ (isPlaying /\ Len(userInputs) = MaxInputs)
          ~> (~isPlaying /\ timeOffset = 150 /\ playIntervalRef # "running")
    /\ [][(Len(userInputs) = MaxInputs /\ ~isPlaying /\ timeOffset = 150)
             => (~isPlaying' /\ timeOffset' = 150)]_vars

\* playback was started, ran through to 150 without further input and has
\* stopped; its interval is cleared
C29_Witness ==
    /\ userInputs = <<"toggle">>
    /\ timeOffset = 150
    /\ ~isPlaying
    /\ effectIsPlaying = FALSE
    /\ playIntervalRef = "cleared"

\* the number of cells of the lattice of every selectable setting
SelectableCellCounts ==
    {Len(Lats(settings.step2, settings.maxLat)) * Len(Lons(settings.step2)) :
        settings \in SelectableSettings}

\* C30: every grid run started by handleCalculate completes: for every
\* selectable resolution and coverage generateVisibilityGrid visits finitely
\* many cells and returns, after which the points are set and isCalculating is
\* false again; while isCalculating is true no second run can be started.
C30_EveryRunCompletes ==
    /\ [](\A n \in SelectableCellCounts : n >= 1)
    /\ isCalculating ~> (~isCalculating /\ gridRun = None /\ timers = <<>>)
    /\ [](/\ isCalculating <=> (timers # <<>> \/ gridRun # None)
          /\ Len(timers) + (IF gridRun # None THEN 1 ELSE 0) <= 1)
    /\ [][/\ isCalculating => Len(timers') <= Len(timers)
          /\ (isCalculating /\ ~isCalculating')
                => /\ gridRun # None
                   /\ visibilityPoints' = gridRun.points
                   /\ LET settings == gridRun.settings
                          nLat == (4 * settings.maxLat) \div settings.step2 + 1
                          nLon == (720 + settings.step2 - 1) \div settings.step2
                      IN  Len(heap'[visibilityPoints']) = nLat * nLon
         ]_vars

\* the run at 4 degrees up to latitude 60 has visited its 31 x 90 cells and
\* its points are displayed
C30_Witness ==
    /\ ~isCalculating
    /\ gridRun = None
    /\ timers = <<>>
    /\ visibilityPoints = 2
    /\ Len(heap[2]) = 2790
    /\ calcProgress = 100

====
